---- MODULE Spec2Model ----
(***************************************************************************)
(* Model of the external-search orchestration core of snapped_backend:     *)
(* the Search Gateway (app/services/serpapi_service.py) with its bounded   *)
(* retry loop, and the two Result Cache wrappers that decorate it          *)
(* (app/utils/performance.py async_cache, app/utils/redis_cache.py         *)
(* redis_cache).                                                           *)
(*                                                                         *)
(* Time is counted in whole seconds.  A task is one handled request; the   *)
(* code between two awaits runs atomically on the event loop, so one       *)
(* action covers the code from one suspension point to the next.           *)
(***************************************************************************)
EXTENDS Integers, Sequences, FiniteSets, TLC

VARIABLES
    clock,            \* time.time(), whole seconds
    ticks,            \* number of clock advances so far (bounded)
    cache_decorator,  \* wrapper chosen at import: "direct" | "async_cache" | "redis_cache"
    redis_ok,         \* REDIS_ENABLED and redis_client (redis_cache.py module state)
    api_key,          \* settings.SERPAPI_API_KEY is set
    task,             \* per request in flight: position in wrapper/gateway and its record
    last,             \* the record of the search that returned in the step just taken, if any
    started,          \* number of searches started so far (bounded)
    _cache,           \* performance._cache: set of [key, result, timestamp]
    _memory_cache,    \* redis_cache._memory_cache: set of [key, result, timestamp]
    redis_db,         \* the shared store: set of [key, value, expireAt]
    lastDone,         \* history: per url, the last gateway call completed under async_cache
    pair,             \* side-by-side run of the two wrappers (SpecPair only)
    store,            \* the Search Record Store: image_searches and search_results rows
    ep,               \* the request handlers of the API and their background tasks
    view,             \* the response produced in the step just taken, if any
    dd,               \* one run of utils/deduplication.filter_duplicates
    crop              \* the upload folder and the crop requests handled

\* the state outside the gateway and its cache wrappers
ext == <<store, ep, view, dd, crop>>

vars == <<clock, ticks, cache_decorator, redis_ok, api_key, task, last, started,
          _cache, _memory_cache, redis_db, lastDone, pair, ext>>

---------------------------------------------------------------------------
(* Bounds of the model *)

MaxSearches == 2      \* searches handled in one behaviour
MaxTicks == 2         \* clock advances in one behaviour
MaxPairSearches == 3  \* searches of the side-by-side run

(* Program constants *)

TTL == 3600               \* cache_decorator = ...(ttl=3600)
MaxAttempts == 3          \* for attempt in range(3)
DefaultRetryAfter == 2    \* response.headers.get("Retry-After", "2")
MemoryCacheLimit == 1000  \* if len(_memory_cache) > 1000
MemoryCacheEvict == 100   \* expired_keys[:100]
MAX_SIMILAR_PRODUCTS == 30

\* the requests in flight at one time; a task whose search has returned
\* handles the next one
Tasks == {1, 2}
Urls == {"u1", "u2"}
TickSteps == {1, TTL - 1}

None == [none |-> TRUE]

---------------------------------------------------------------------------
(* Product records and the provider's response bodies.                     *)
(* A title is a sequence of tokens separated by single spaces; a token is  *)
(* a word (capitalised or not) or a parenthesised group holding one word.  *)

Tok(w, cap, paren) == [w |-> w, cap |-> cap, paren |-> paren]

\* words, spelled: a word is the sequence of its characters in lower case
Red == <<"r", "e", "d">>
Shoe == <<"s", "h", "o", "e">>
Size9 == <<"s", "i", "z", "e", "9">>
Bag == <<"b", "a", "g">>

TitleShoe == <<Tok(Red, TRUE, FALSE), Tok(Shoe, TRUE, FALSE)>>
TitleShoeVariant == <<Tok(Red, FALSE, FALSE), Tok(Shoe, FALSE, FALSE), Tok(Size9, FALSE, TRUE)>>
TitleBag == <<Tok(Bag, TRUE, FALSE)>>

\* a product of process_google_lens_response: its nine keys; the link, the
\* rating and the review count tell products of different titles apart
Item(title, price) ==
    [title |-> title, price |-> price, link |-> [page |-> title],
     image_url |-> "thumbnail", brand |-> "brand", source |-> "visual_matches",
     description |-> "snippet", rating |-> Len(title), reviews_count |-> 10 * Len(title)]

\* response.json() bodies: the items of the response, in provider order
DataShoes == <<Item(TitleShoe, "$10"), Item(TitleShoeVariant, "$12"), Item(TitleBag, "")>>
DataBag == <<Item(TitleBag, "$25")>>
DataUnpriced == <<Item(TitleBag, "")>>
DataEmpty == << >>

ProviderData == {DataShoes, DataBag, DataUnpriced, DataEmpty}

\* numbered titles: "Item 07"
Digit == <<"0", "1", "2", "3", "4", "5", "6", "7", "8", "9">>
Numeral(i) == <<Digit[(i \div 10) + 1], Digit[(i % 10) + 1]>>
ItemWord == <<"i", "t", "e", "m">>
TitleNo(i) == <<Tok(ItemWord, TRUE, FALSE), Tok(Numeral(i), FALSE, FALSE)>>
TitleNoVariant(i) == Append(TitleNo(i), Tok(Size9, FALSE, TRUE))

\* a body with more priced, distinct items than the cap lets through; its
\* second item has no price and its third is a variant of the first
DataMany ==
    [i \in 1..(MAX_SIMILAR_PRODUCTS + 3) |->
        CASE i = 2 -> Item(TitleNo(i), "")
          [] i = 3 -> Item(TitleNoVariant(1), "$12")
          [] OTHER -> Item(TitleNo(i), "$10")]

RECURSIVE SelectSeqBy(_, _)
\* [x for x in s if keep[x]] for a set `keep` of indices
SelectSeqBy(s, keep) ==
    IF s = << >> THEN << >>
    ELSE LET n == Len(s)
             front == SelectSeqBy(SubSeq(s, 1, n - 1), keep)
         IN IF n \in keep THEN Append(front, s[n]) ELSE front

\* normalize_title: drop parenthesised groups, collapse spaces, lowercase
normalize_title(title) ==
    LET keep == {i \in 1..Len(title) : ~title[i].paren}
        kept == SelectSeqBy(title, keep)
    IN [i \in 1..Len(kept) |-> [kept[i] EXCEPT !.cap = FALSE]]

\* filter_duplicates of the gateway: keep the first product of each normalized title
filter_duplicates(products) ==
    LET keep == {i \in 1..Len(products) :
                    \A j \in 1..(i - 1) :
                        normalize_title(products[j].title) # normalize_title(products[i].title)}
    IN SelectSeqBy(products, keep)

\* variant: products without a price are kept
KeepUnpriced(products) == products

\* [p for p in products if p.get("price")]
Priced(products) ==
    SelectSeqBy(products, {i \in 1..Len(products) : products[i].price # ""})

Cap(products, n) ==
    IF Len(products) <= n THEN products ELSE SubSeq(products, 1, n)

\* variant: the cap is applied before the products without a price are dropped
ProcessCapFirst(data) == Priced(Cap(filter_duplicates(data), MAX_SIMILAR_PRODUCTS))

\* process_google_lens_response: dedupe, drop unpriced, cap
process_google_lens_response(data) ==
    Cap(Priced(filter_duplicates(data)), MAX_SIMILAR_PRODUCTS)

---------------------------------------------------------------------------
(* Outcomes of one request to the provider *)

\* the Retry-After header of a 429 response
HdrAbsent == [present |-> FALSE, numeric |-> FALSE, value |-> 0]
HdrNumber == [present |-> TRUE, numeric |-> TRUE, value |-> 5]
HdrText == [present |-> TRUE, numeric |-> FALSE, value |-> 0]
Headers == {HdrAbsent, HdrNumber, HdrText}

Response(status, hdr, data) ==
    [kind |-> "response", status |-> status, hdr |-> hdr, data |-> data]
Failure(kind) ==
    [kind |-> kind, status |-> 0, hdr |-> HdrAbsent, data |-> DataEmpty]

Outcomes ==
    {Response(429, h, DataEmpty) : h \in Headers}
    \cup {Response(s, HdrAbsent, DataEmpty) : s \in {404, 503}}
    \cup {Response(200, HdrAbsent, d) : d \in ProviderData}
    \cup {Failure(k) : k \in {"timeout", "connect", "unexpected"}}

\* the outcomes the cache specifications draw from
CacheOutcomes ==
    {Failure("timeout"), Response(200, HdrAbsent, DataShoes),
     Response(200, HdrAbsent, DataUnpriced)}

\* class of an outcome, as the claims name them
Class(o) ==
    IF o.kind # "response" THEN o.kind
    ELSE IF o.status = 429 THEN "429"
    ELSE IF o.status >= 500 /\ o.status < 600 THEN "5xx"
    ELSE IF o.status >= 400 THEN "4xx"
    ELSE "ok"

\* float(response.headers.get("Retry-After", "2")): a number of seconds, or ValueError
RetryAfter(hdr) ==
    IF ~hdr.present THEN [ok |-> TRUE, seconds |-> DefaultRetryAfter]
    ELSE IF hdr.numeric THEN [ok |-> TRUE, seconds |-> hdr.value]
    ELSE [ok |-> FALSE, seconds |-> 0]

\* variant: a retry loop that does not count its attempts
ForNextStuck(attempt) == attempt

\* `for attempt in range(3)`: the attempt after this one
ForNext(attempt) == attempt + 1

\* wait_time = 2 ** attempt
Pow2(n) == 2 ^ n

Return(value) ==
    [act |-> "return", value |-> value, err |-> "", wait |-> 0, jitter |-> FALSE]
Raise(err) ==
    [act |-> "raise", value |-> << >>, err |-> err, wait |-> 0, jitter |-> FALSE]
\* await asyncio.sleep(wait)
Sleep(wait) ==
    [act |-> "sleep", value |-> << >>, err |-> "", wait |-> wait, jitter |-> FALSE]
\* await _sleep_with_jitter(wait): wait plus up to a quarter of it
SleepWithJitter(wait) ==
    [act |-> "sleep", value |-> << >>, err |-> "", wait |-> wait, jitter |-> TRUE]

\* variant: gives up one attempt early
RetryOrRaiseEarly(attempt, err) ==
    IF attempt = 1 THEN Raise(err) ELSE SleepWithJitter(Pow2(attempt))

\* except (httpx.TimeoutException, httpx.ConnectError) and except Exception
RetryOrRaise(attempt, err) ==
    IF attempt = 2 THEN Raise(err) ELSE SleepWithJitter(Pow2(attempt))

\* variant: retries every error status, 4xx included
OnStatusErrorRetryAll(attempt, status) ==
    IF status >= 400 /\ attempt < 2
    THEN SleepWithJitter(Pow2(attempt))
    ELSE Return(<< >>)

\* except httpx.HTTPStatusError
OnStatusError(attempt, status) ==
    IF status >= 500 /\ status < 600 /\ attempt < 2
    THEN SleepWithJitter(Pow2(attempt))
    ELSE Return(<< >>)

\* the 429 branch of the try block
OnRateLimited(attempt, hdr) ==
    LET ra == RetryAfter(hdr)
    IN IF ~ra.ok THEN RetryOrRaise(attempt, "ValueError")
       ELSE IF attempt = 2 THEN Return(<< >>)
       ELSE Sleep(ra.seconds)

\* the success path of the try block
OnSuccess(data) ==
    LET products == process_google_lens_response(data)
    IN IF products = << >> THEN Return(<< >>) ELSE Return(Priced(products))

\* one iteration of `for attempt in range(3)`: what the gateway does with
\* the outcome of the request of this attempt
GatewayStep(attempt, o) ==
    IF o.kind = "response"
    THEN IF o.status = 429 THEN OnRateLimited(attempt, o.hdr)
         ELSE IF o.status >= 400 THEN OnStatusError(attempt, o.status)
         ELSE OnSuccess(o.data)
    ELSE RetryOrRaise(attempt, o.kind)

---------------------------------------------------------------------------
(* The cache stores.  A Python dict is modelled as a set of entries; the   *)
(* store operation is dict assignment.                                     *)

CacheHas(c, key) == \E e \in c : e.key = key
CacheEntry(c, key) == CHOOSE e \in c : e.key = key

\* variant: an index that appends instead of replacing the key's entry
CacheStoreAppend(c, key, result, now) ==
    c \cup {[key |-> key, result |-> result, timestamp |-> now]}

\* _cache[key] = {"result": result, "timestamp": time.time()}
CacheStore(c, key, result, now) ==
    {e \in c : e.key # key} \cup {[key |-> key, result |-> result, timestamp |-> now]}

\* variant: an entry of age exactly ttl still counts as fresh
FreshInclusive(entry, now) == now - entry.timestamp <= TTL

\* time.time() - entry["timestamp"] < ttl
Fresh(entry, now) == now - entry.timestamp < TTL

\* key = f"{func.__name__}:{str(args)}:{str(kwargs)}"
AsyncKey(url) == <<"search_similar_products", "args", url>>

\* hash(str(args)): collision-free on the bounded set of urls
HashOf(url) == IF url = "u1" THEN 101 ELSE 202

\* key = f"{func.__name__}:{hash(str(args))}{hash(str(kwargs))}"
RedisKey(url) == <<"search_similar_products", "hash", HashOf(url)>>

\* json.dumps(result): the text, by its payload and its length ("[]" has 2 bytes)
JsonDumps(result) == [json |-> result, length |-> Len(result) + 2]
\* json.loads(cached_data)
JsonLoads(text) == text.json
\* `if cached_data:` of a bytes value
Truthy(text) == text # None /\ text.length > 0

\* redis_client.setex(key, ttl, serialized)
RedisSetex(db, key, value, now) ==
    {e \in db : e.key # key} \cup {[key |-> key, value |-> value, expireAt |-> now + TTL]}

\* redis_client.get(key): the value of a key that has not expired, else None
RedisGet(db, key, now) ==
    IF \E e \in db : e.key = key /\ now < e.expireAt
    THEN (CHOOSE e \in db : e.key = key).value
    ELSE None

\* the clean-up of _memory_cache once it holds more than 1000 entries:
\* drops (up to 100 of) the entries older than the ttl
MemoryCleanup(c, now) ==
    IF Cardinality(c) > MemoryCacheLimit
    THEN LET expired == {e \in c : now - e.timestamp > TTL}
         IN IF Cardinality(expired) <= MemoryCacheEvict THEN c \ expired
            ELSE c \ (CHOOSE d \in SUBSET expired : Cardinality(d) = MemoryCacheEvict)
    ELSE c

---------------------------------------------------------------------------
(* Tasks *)

IdleTask ==
    [pc |-> "idle", url |-> "", attempt |-> 0,
     requests |-> 0,      \* requests sent by the current gateway call
     hist |-> << >>,      \* classes of the outcomes of the current gateway call
     slept |-> << >>,     \* the attempts after which the current gateway call slept
     calls |-> 0,         \* gateway calls made for this search
     total |-> 0,         \* requests sent for this search, over all gateway calls
     hit |-> FALSE,       \* served from a cache entry
     servedAge |-> 0,     \* age of the entry served
     stale |-> FALSE,     \* the lookup found an entry that was too old
     storeErr |-> {},     \* store operations that raised: "read", "write"
     fallback |-> FALSE,  \* inside the wrapper's `except Exception` call
     replaced |-> None,   \* the entry the key held just before this search wrote its own
     first |-> None,      \* how the first gateway call ended
     outcome |-> None]    \* what the caller got

\* no search returns in this step
NoFinish == last' = IdleTask

\* the search of task t returns st (Return or Raise) to its caller
Finish(t, g, st) ==
    /\ task' = [task EXCEPT ![t] = IdleTask]
    /\ last' = [g EXCEPT !.pc = "done", !.outcome = st]

\* what a wrapper does when the gateway call raises: async_cache has no
\* handler (the exception propagates); redis_cache catches it in its outer
\* `except Exception` and calls the function again, whose outcome propagates
AfterRaise(wrapper, fallback) ==
    IF wrapper = "redis_cache" /\ ~fallback THEN "call_again" ELSE "propagate"

\* whether a wrapper stores the result a gateway call returned: the call of
\* the except block returns it uncached
WritesEntry(wrapper, fallback) == wrapper # "direct" /\ ~fallback

\* `return await func(*args, **kwargs)` of redis_cache's except block
FallbackCall(t, g) ==
    /\ task' = [task EXCEPT ![t] =
            [g EXCEPT !.pc = "attempting", !.fallback = TRUE, !.attempt = 0,
                      !.requests = 0, !.hist = << >>, !.slept = << >>, !.calls = @ + 1]]
    /\ NoFinish
    /\ UNCHANGED <<_cache, _memory_cache, redis_db, lastDone>>

\* variant: a raising setex reaches the outer handler, which calls the function again
OnWriteFailureCallAgain(t, g, st) == FallbackCall(t, [g EXCEPT !.storeErr = @ \cup {"write"}])

\* redis_client.setex raises: `except Exception` of the caching block logs
\* it, and the wrapper returns the result
OnWriteFailure(t, g, st) ==
    /\ Finish(t, [g EXCEPT !.storeErr = @ \cup {"write"}], st)
    /\ UNCHANGED <<_cache, _memory_cache, redis_db, lastDone>>

\* the entry of the key in a dict, or None
Held(c, key) == IF CacheHas(c, key) THEN CacheEntry(c, key) ELSE None

\* variant: a wrapper that stores an empty result for a call that raised
PropagateStored(t, g, st) ==
    /\ Finish(t, g, st)
    /\ _cache' = CacheStore(_cache, AsyncKey(g.url), << >>, clock)
    /\ _memory_cache' = CacheStore(_memory_cache, RedisKey(g.url), << >>, clock)
    /\ UNCHANGED <<redis_db, lastDone>>

\* the exception of the gateway call leaves the wrapper: the statements
\* after `await func(*args, **kwargs)` do not run
Propagate(t, g, st) ==
    /\ Finish(t, g, st)
    /\ UNCHANGED <<_cache, _memory_cache, redis_db, lastDone>>

\* variant: a dict store that keeps the entry a key already has
CacheStoreIfAbsent(c, key, result, now) ==
    IF CacheHas(c, key) THEN c
    ELSE c \cup {[key |-> key, result |-> result, timestamp |-> now]}

\* the dict store of a wrapper: _cache[key] = ..., _memory_cache[key] = ...
DictStore(c, key, result, now) == CacheStore(c, key, result, now)

\* the gateway call ends with st (Return or Raise): the rest of the wrapper,
\* up to the return to the caller or the next await
Complete(t, g0, st) ==
    LET g == IF g0.calls = 1 THEN [g0 EXCEPT !.first = st] ELSE g0
    IN
    IF st.act = "raise"
    THEN IF AfterRaise(cache_decorator, g.fallback) = "call_again"
         THEN FallbackCall(t, g)
         ELSE Propagate(t, g, st)
    ELSE IF ~WritesEntry(cache_decorator, g.fallback)
    THEN /\ Finish(t, g, st)
         /\ UNCHANGED <<_cache, _memory_cache, redis_db, lastDone>>
    ELSE IF cache_decorator = "async_cache"
    THEN /\ _cache' = DictStore(_cache, AsyncKey(g.url), st.value, clock)
         /\ lastDone' = [lastDone EXCEPT ![g.url] =
                            [result |-> st.value, timestamp |-> clock]]
         /\ Finish(t, [g EXCEPT !.replaced = Held(_cache, AsyncKey(g.url))], st)
         /\ UNCHANGED <<_memory_cache, redis_db>>
    ELSE IF redis_ok
    THEN \E fails \in BOOLEAN :
            IF fails
            THEN OnWriteFailure(t, g, st)
            ELSE /\ redis_db' = RedisSetex(redis_db, RedisKey(g.url),
                                           JsonDumps(st.value), clock)
                 /\ Finish(t, g, st)
                 /\ UNCHANGED <<_cache, _memory_cache, lastDone>>
    ELSE /\ _memory_cache' = MemoryCleanup(
                DictStore(_memory_cache, RedisKey(g.url), st.value, clock), clock)
         /\ Finish(t, [g EXCEPT !.replaced = Held(_memory_cache, RedisKey(g.url))], st)
         /\ UNCHANGED <<_cache, redis_db, lastDone>>

\* result = await func(*args, **kwargs): entry of search_similar_products
CallGateway(t, g) ==
    IF ~api_key
    THEN \* missing credential: return [] with no request
         Complete(t, [g EXCEPT !.calls = @ + 1], Return(<< >>))
    ELSE /\ task' = [task EXCEPT ![t] =
                [g EXCEPT !.pc = "attempting", !.attempt = 0, !.requests = 0,
                          !.hist = << >>, !.slept = << >>, !.calls = @ + 1]]
         /\ NoFinish
         /\ UNCHANGED <<_cache, _memory_cache, redis_db, lastDone>>

\* variant: a lookup that takes an empty list for a missing result
DictGetTruthy(c, key, now) ==
    IF CacheHas(c, key) /\ Fresh(CacheEntry(c, key), now) /\ CacheEntry(c, key).result # << >>
    THEN [hit |-> TRUE, result |-> CacheEntry(c, key).result,
          age |-> now - CacheEntry(c, key).timestamp, stale |-> FALSE]
    ELSE [hit |-> FALSE, result |-> << >>, age |-> 0, stale |-> CacheHas(c, key)]

\* the lookup of a dict-backed cache (async_cache, and redis_cache without a
\* client): a hit when the key is held and its entry is fresh
DictGet(c, key, now) ==
    IF CacheHas(c, key) /\ Fresh(CacheEntry(c, key), now)
    THEN [hit |-> TRUE, result |-> CacheEntry(c, key).result,
          age |-> now - CacheEntry(c, key).timestamp, stale |-> FALSE]
    ELSE [hit |-> FALSE, result |-> << >>, age |-> 0, stale |-> CacheHas(c, key)]

\* the lookup of redis_cache with a client, when get does not raise
RedisRead(db, key, now) ==
    LET cached_data == RedisGet(db, key, now)
    IN IF Truthy(cached_data)
       THEN [hit |-> TRUE, result |-> JsonLoads(cached_data),
             age |-> now - ((CHOOSE e \in db : e.key = key).expireAt - TTL),
             stale |-> FALSE]
       ELSE [hit |-> FALSE, result |-> << >>, age |-> 0,
             stale |-> \E e \in db : e.key = key]

\* the wrapper after its lookup: return the entry's result, or call the gateway
AfterLookup(t, g, l) ==
    IF l.hit
    THEN /\ Finish(t, [g EXCEPT !.hit = TRUE, !.servedAge = l.age], Return(l.result))
         /\ UNCHANGED <<_cache, _memory_cache, redis_db, lastDone>>
    ELSE CallGateway(t, [g EXCEPT !.stale = l.stale])

\* the lookup of redis_cache with a client
RedisLookup(t, g) ==
    \E fails \in BOOLEAN :
        IF fails
        THEN \* get raises: logged, then the function is executed
             CallGateway(t, [g EXCEPT !.storeErr = @ \cup {"read"}])
        ELSE AfterLookup(t, g, RedisRead(redis_db, RedisKey(g.url), clock))

\* a request handler awaits search_similar_products(image_url): the wrapper
\* up to its first await
Start(t, url) ==
    /\ task[t].pc = "idle"
    /\ \A s \in Tasks : s < t => task[s].pc # "idle"
    /\ started < MaxSearches
    /\ started' = started + 1
    /\ LET g == [IdleTask EXCEPT !.url = url]
       IN CASE cache_decorator = "direct" -> CallGateway(t, g)
            [] cache_decorator = "async_cache" ->
                  AfterLookup(t, g, DictGet(_cache, AsyncKey(url), clock))
            [] cache_decorator = "redis_cache" ->
                  IF redis_ok THEN RedisLookup(t, g)
                  ELSE AfterLookup(t, g, DictGet(_memory_cache, RedisKey(url), clock))
    /\ UNCHANGED <<clock, ticks, cache_decorator, redis_ok, api_key, pair, ext>>

\* response = await client.get(api_url, params=params) gives outcome o; the
\* gateway handles it, and when the call ends the wrapper finishes
DoRequest(t, o) ==
    /\ task[t].pc = "attempting"
    /\ LET st == GatewayStep(task[t].attempt, o)
           g == [task[t] EXCEPT !.requests = @ + 1, !.total = @ + 1,
                                !.hist = Append(@, Class(o))]
       IN IF st.act = "sleep"
          THEN /\ task' = [task EXCEPT ![t] =
                      [g EXCEPT !.pc = "sleeping",
                                !.slept = Append(@, [after |-> g.attempt, wait |-> st.wait,
                                                     jitter |-> st.jitter])]]
               /\ NoFinish /\ UNCHANGED <<_cache, _memory_cache, redis_db, lastDone>>
          ELSE Complete(t, g, st)
    /\ UNCHANGED <<clock, ticks, cache_decorator, redis_ok, api_key, started, pair, ext>>

\* asyncio.sleep / _sleep_with_jitter returns: next iteration of the loop.
\* The time the sleep took is whatever the clock advanced while the task
\* slept; the length of a sleep decides nothing that is checked here, so
\* the model does not force the advance.
Wake(t) ==
    /\ task[t].pc = "sleeping"
    /\ LET n == ForNext(task[t].attempt)
       IN IF n < MaxAttempts
          THEN /\ task' = [task EXCEPT ![t] = [@ EXCEPT !.pc = "attempting", !.attempt = n]]
               /\ NoFinish
               /\ UNCHANGED <<_cache, _memory_cache, redis_db, lastDone>>
          ELSE \* the loop is exhausted: the `return []` after it
               Complete(t, task[t], Return(<< >>))
    /\ UNCHANGED <<clock, ticks, cache_decorator, redis_ok, api_key, started, pair, ext>>

Tick(d) ==
    /\ ticks < MaxTicks
    /\ clock' = clock + d
    /\ ticks' = ticks + 1
    /\ NoFinish
    /\ UNCHANGED <<cache_decorator, redis_ok, api_key, task, started,
                   _cache, _memory_cache, redis_db, lastDone, pair, ext>>

\* clear_cache() of the wrapper module in use
ClearCache ==
    /\ CASE cache_decorator = "async_cache" ->
              /\ _cache # {}
              /\ _cache' = {}
              /\ lastDone' = [u \in Urls |-> None]
              /\ UNCHANGED <<_memory_cache, redis_db>>
         [] cache_decorator = "redis_cache" /\ redis_ok ->
              /\ redis_db # {}
              /\ redis_db' = {}
              /\ UNCHANGED <<_cache, _memory_cache, lastDone>>
         [] OTHER ->
              /\ _memory_cache # {}
              /\ _memory_cache' = {}
              /\ UNCHANGED <<_cache, redis_db, lastDone>>
    /\ NoFinish
    /\ UNCHANGED <<clock, ticks, cache_decorator, redis_ok, api_key, task, started, pair, ext>>

---------------------------------------------------------------------------
(* Specifications *)

NoPair == [n |-> 0, a |-> None, b |-> None]

\* the tables after Base.metadata.create_all: no rows
EmptyStore == [searches |-> << >>, results |-> << >>]

\* the gateway calls of the endpoint specification, named by the provider
\* body they read; "raise" reads none and ends by raising
GatewayCalls == {"shoes", "unpriced", "many", "raise"}

\* a request handler that handles no request
IdleHandler == [pc |-> "idle", search_id |-> 0, url |-> ""]

\* the API after startup: no request in flight, no background task pending
IdleEndpoint ==
    [h |-> [t \in Tasks |-> IdleHandler],
     bg |-> {},          \* background tasks added and not yet run
     responded |-> {},   \* history: the searches whose response has been produced
     sent |-> {},        \* history: the results of each response produced
     hits |-> {},        \* history: the searches answered from a cache entry
     body |-> [u \in Urls |-> "raise"],  \* history: the gateway call behind the entry of a url
     n |-> 0]            \* requests handled so far (bounded)

\* no call of utils/deduplication.filter_duplicates under way
IdleDedup ==
    [products |-> << >>,   \* the list filter_duplicates is called with
     called |-> {},        \* which filter_duplicates has run: "deduplication", "gateway"
     unique |-> << >>,     \* history: unique_products at the end of the first loop
     trace |-> << >>,      \* history: what the first loop did with each product
     result |-> << >>,     \* what deduplication.filter_duplicates returned
     gateway |-> << >>]    \* what serpapi_service.filter_duplicates returned

\* an empty upload folder, no crop request handled
IdleCrop == [images |-> {}, n |-> 0, response |-> None]

\* the state of the gateway and its caches at import
InitCache ==
    /\ clock = 0
    /\ ticks = 0
    /\ task = [t \in Tasks |-> IdleTask]
    /\ last = IdleTask
    /\ started = 0
    /\ _cache = {}
    /\ _memory_cache = {}
    /\ redis_db = {}
    /\ lastDone = [u \in Urls |-> None]
    /\ pair = NoPair

\* the state of the store and of the API at startup
InitStore ==
    /\ store = EmptyStore
    /\ ep = IdleEndpoint
    /\ view = None

InitCommon ==
    /\ InitCache
    /\ InitStore
    /\ dd = IdleDedup
    /\ crop = IdleCrop

\* one invocation of the undecorated gateway
GatewayInit ==
    /\ InitCommon
    /\ cache_decorator = "direct"
    /\ redis_ok = FALSE
    /\ api_key \in BOOLEAN

GatewayCall == started = 0 /\ \E u \in Urls : Start(1, u)
GatewayRequest == \E o \in Outcomes : DoRequest(1, o)
GatewayWake == Wake(1)

GatewayNext == GatewayCall \/ GatewayRequest \/ GatewayWake

SpecGateway == GatewayInit /\ [][GatewayNext]_vars

\* concurrently handled searches through the configured cache wrapper
Init ==
    /\ InitCommon
    /\ cache_decorator \in {"async_cache", "redis_cache"}
    /\ redis_ok \in BOOLEAN
    /\ cache_decorator = "async_cache" => ~redis_ok
    /\ api_key \in BOOLEAN

Search == \E t \in Tasks, u \in Urls : Start(t, u)
Request == \E t \in Tasks, o \in CacheOutcomes : DoRequest(t, o)
Wakeup == \E t \in Tasks : Wake(t)
Advance == \E d \in TickSteps : Tick(d)

Next == Search \/ Request \/ Wakeup \/ Advance \/ ClearCache

Spec == Init /\ [][Next]_vars

\* the outcomes of a request that make the gateway call end with an empty
\* list: 429 (on every attempt), a 4xx other than 429, no priced product
EmptyOutcomes ==
    {Response(429, HdrAbsent, DataEmpty), Response(404, HdrAbsent, DataEmpty),
     Response(200, HdrAbsent, DataUnpriced)}

EmptyRequest == \E t \in Tasks, o \in EmptyOutcomes : DoRequest(t, o)

EmptyNext == Search \/ EmptyRequest \/ Wakeup \/ Advance \/ ClearCache

\* concurrently handled searches whose gateway calls end with an empty list
SpecEmptyResults == Init /\ [][EmptyNext]_vars

\* the two wrappers side by side around one gateway, fed the same searches,
\* gateway outcomes and clock; a gateway call is one step here
GatewayResults == {OnSuccess(d) : d \in ProviderData} \cup {Raise("timeout")}

\* one search through a wrapper whose lookup gave l: o1 is how the gateway
\* call ends, o2 how a second call ends if the wrapper makes one
WrapperRun(wrapper, l, o1, o2) ==
    IF l.hit
    THEN [hit |-> TRUE, calls |-> 0, outcome |-> Return(l.result), write |-> FALSE]
    ELSE IF o1.act = "return"
    THEN [hit |-> FALSE, calls |-> 1, outcome |-> o1,
          write |-> WritesEntry(wrapper, FALSE)]
    ELSE IF AfterRaise(wrapper, FALSE) = "call_again"
    THEN [hit |-> FALSE, calls |-> 2, outcome |-> o2,
          write |-> o2.act = "return" /\ WritesEntry(wrapper, TRUE)]
    ELSE [hit |-> FALSE, calls |-> 1, outcome |-> o1, write |-> FALSE]

PairInit ==
    /\ InitCommon
    /\ cache_decorator = "direct"
    /\ redis_ok = TRUE
    /\ api_key = TRUE

PairSearch ==
    \E url \in Urls, o1 \in GatewayResults, o2 \in GatewayResults :
        /\ pair.n < MaxPairSearches
        /\ LET a == WrapperRun("async_cache",
                               DictGet(_cache, AsyncKey(url), clock), o1, o2)
               b == WrapperRun("redis_cache",
                               RedisRead(redis_db, RedisKey(url), clock), o1, o2)
           IN /\ _cache' = IF a.write
                            THEN CacheStore(_cache, AsyncKey(url), a.outcome.value, clock)
                            ELSE _cache
              /\ redis_db' = IF b.write
                              THEN RedisSetex(redis_db, RedisKey(url),
                                              JsonDumps(b.outcome.value), clock)
                              ELSE redis_db
              /\ pair' = [n |-> pair.n + 1,
                          a |-> [hit |-> a.hit, calls |-> a.calls, outcome |-> a.outcome],
                          b |-> [hit |-> b.hit, calls |-> b.calls, outcome |-> b.outcome]]
        /\ NoFinish
        /\ UNCHANGED <<clock, ticks, cache_decorator, redis_ok, api_key, task, started,
                       _memory_cache, lastDone, ext>>

PairAdvance == \E d \in TickSteps : Tick(d)

PairNext == PairSearch \/ PairAdvance

SpecPair == PairInit /\ [][PairNext]_vars

---------------------------------------------------------------------------
(* The Search Record Store (app/services/db_service.py) and the request    *)
(* handlers that use it (app/api/endpoints/images.py).  A table is the     *)
(* sequence of its rows in insertion order; ids are assigned from 1.       *)

MaxRequests == 2   \* requests to /search handled in one behaviour

\* product.get(key, default)
Get(product, key, default) == IF key \in DOMAIN product THEN product[key] ELSE default

STORE_RAW_DATA == FALSE   \* os.getenv("STORE_RAW_DATA", "false")

\* extract_product_info under a setting of STORE_RAW_DATA: the columns of a
\* search_results row; json.dumps(product) is the text of the product
ProductInfo(product, store_raw) ==
    [title |-> Get(product, "title", ""), link |-> Get(product, "link", ""),
     image_url |-> Get(product, "image_url", ""), price |-> Get(product, "price", ""),
     brand |-> Get(product, "brand", ""), source |-> Get(product, "source", ""),
     description |-> Get(product, "description", ""),
     rating |-> Get(product, "rating", None),
     reviews_count |-> Get(product, "reviews_count", None),
     raw_data |-> IF store_raw THEN [json |-> product] ELSE None]

\* extract_product_info
extract_product_info(product) == ProductInfo(product, STORE_RAW_DATA)

\* create_image_search: db.add, db.commit, db.refresh
create_image_search(s, image_path, now) ==
    [s EXCEPT !.searches = Append(@, [id |-> Len(@) + 1, image_path |-> image_path,
                                      search_time |-> now])]

\* variant: rows written under the id of the newest search
create_search_results_newest(s, search_id, products) ==
    [s EXCEPT !.results = @ \o
        [i \in 1..Len(products) |->
            [id |-> Len(s.results) + i, search_id |-> Len(s.searches)]
                @@ ProductInfo(products[i], STORE_RAW_DATA)]]

\* create_search_results: one row per product, one commit
create_search_results(s, search_id, products) ==
    [s EXCEPT !.results = @ \o
        [i \in 1..Len(products) |->
            [id |-> Len(s.results) + i, search_id |-> search_id]
                @@ extract_product_info(products[i])]]

\* get_search_by_id: the row, or None
get_search_by_id(s, search_id) ==
    IF search_id \in 1..Len(s.searches) THEN s.searches[search_id] ELSE None

\* db_search.results: the rows of the search
ResultsOf(s, search_id) == SelectSeq(s.results, LAMBDA r : r.search_id = search_id)

\* SearchResult(id=0, search_id=db_search.id, title=product.get("title"), ...)
SearchResultOfProduct(search_id, product) ==
    [id |-> 0, search_id |-> search_id,
     title |-> Get(product, "title", None), link |-> Get(product, "link", None),
     image_url |-> Get(product, "image_url", None), price |-> Get(product, "price", None),
     brand |-> Get(product, "brand", None), source |-> Get(product, "source", None),
     description |-> Get(product, "description", None),
     rating |-> Get(product, "rating", None),
     reviews_count |-> Get(product, "reviews_count", None)]

\* SearchResult(id=result.id, search_id=result.search_id, title=result.title, ...)
SearchResultOfRow(result) ==
    [id |-> result.id, search_id |-> result.search_id,
     title |-> result.title, link |-> result.link, image_url |-> result.image_url,
     price |-> result.price, brand |-> result.brand, source |-> result.source,
     description |-> result.description, rating |-> result.rating,
     reviews_count |-> result.reviews_count]

\* sorted(results_data, key=lambda x: x.id): ids are unique
SortedById(rows) ==
    LET ids == {rows[i].id : i \in 1..Len(rows)}
    IN [k \in 1..Len(rows) |->
           LET i == CHOOSE j \in 1..Len(rows) :
                        Cardinality({x \in ids : x < rows[j].id}) = k - 1
           IN rows[i]]

\* the "results" of a response body: schema models of the products of a
\* search, or of the rows of a stored search sorted by id
SearchResults(kind, search_id, results) ==
    IF kind = "fetch"
    THEN [k \in 1..Len(results) |-> SearchResultOfRow(SortedById(results)[k])]
    ELSE [k \in 1..Len(results) |-> SearchResultOfProduct(search_id, results[k])]

\* the body of a 200 response of /search and of /searches/{search_id}
SimilarProductsResponse(kind, search_id, results, hit, data) ==
    [kind |-> kind, status |-> 200, search_id |-> search_id, results |-> results,
     items |-> SearchResults(kind, search_id, results),
     total_results |-> Len(results),
     hit |-> hit,     \* history: the list came from a cache entry
     call |-> data]   \* history: the gateway call the list was computed by

\* raise HTTPException(status_code=status)
HTTPException(kind, status, search_id) ==
    [kind |-> kind, status |-> status, search_id |-> search_id, results |-> << >>,
     items |-> << >>, total_results |-> 0, hit |-> FALSE, call |-> "raise"]

\* the provider body a gateway call reads
Body ==
    [c \in GatewayCalls |->
        CASE c = "shoes" -> DataShoes
          [] c = "unpriced" -> DataUnpriced
          [] c = "many" -> DataMany
          [] OTHER -> DataEmpty]

\* how a gateway call ends
GatewayResult ==
    [c \in GatewayCalls |-> IF c = "raise" THEN Raise("timeout") ELSE OnSuccess(Body[c])]

\* the lookup of the configured wrapper
EpLookup(url) ==
    CASE cache_decorator = "async_cache" -> DictGet(_cache, AsyncKey(url), clock)
      [] cache_decorator = "redis_cache" /\ redis_ok ->
            RedisRead(redis_db, RedisKey(url), clock)
      [] OTHER -> DictGet(_memory_cache, RedisKey(url), clock)

\* the configured wrapper stores a result
EpStore(url, result) ==
    CASE cache_decorator = "async_cache" ->
            /\ _cache' = CacheStore(_cache, AsyncKey(url), result, clock)
            /\ UNCHANGED <<_memory_cache, redis_db>>
      [] cache_decorator = "redis_cache" /\ redis_ok ->
            /\ redis_db' = RedisSetex(redis_db, RedisKey(url), JsonDumps(result), clock)
            /\ UNCHANGED <<_cache, _memory_cache>>
      [] OTHER ->
            /\ _memory_cache' = MemoryCleanup(
                    CacheStore(_memory_cache, RedisKey(url), result, clock), clock)
            /\ UNCHANGED <<_cache, redis_db>>

\* variant: the handler awaits create_search_results before it responds
RespondAfterWrite(t, e, s, st, hit, data) ==
    /\ ep' = [e EXCEPT !.h[t] = IdleHandler,
                       !.responded = @ \cup {e.h[t].search_id},
                       !.sent = @ \cup {[search_id |-> e.h[t].search_id,
                                         items |-> SearchResults("search", e.h[t].search_id,
                                                                 st.value)]}]
    /\ store' = create_search_results(s, e.h[t].search_id, st.value)
    /\ view' = SimilarProductsResponse("search", e.h[t].search_id, st.value, hit, data)

\* search_products once search_similar_products has returned: hand the
\* write to the background tasks, build the response, return it
Respond(t, e, s, st, hit, data) ==
    /\ ep' = [e EXCEPT !.h[t] = IdleHandler,
                       !.bg = @ \cup {[search_id |-> e.h[t].search_id,
                                       products |-> st.value]},
                       !.responded = @ \cup {e.h[t].search_id},
                       !.sent = @ \cup {[search_id |-> e.h[t].search_id,
                                         items |-> SearchResults("search", e.h[t].search_id,
                                                                 st.value)]}]
    /\ store' = s
    /\ view' = SimilarProductsResponse("search", e.h[t].search_id, st.value, hit, data)

\* variant: the write is handed to the background tasks before the gateway
\* is called, so a failed search has one too
FailScheduled(t, e, s) ==
    /\ ep' = [e EXCEPT !.h[t] = IdleHandler,
                       !.bg = @ \cup {[search_id |-> e.h[t].search_id, products |-> << >>]}]
    /\ store' = s
    /\ view' = HTTPException("search", 500, e.h[t].search_id)

\* search_products once search_similar_products has raised: `except Exception`
Fail(t, e, s) ==
    /\ ep' = [e EXCEPT !.h[t] = IdleHandler]
    /\ store' = s
    /\ view' = HTTPException("search", 500, e.h[t].search_id)

\* POST /search up to the first suspension: the 404 check, create_image_search,
\* and the wrapper's lookup; a hit is answered in the same step
SearchProducts(t, url, exists) ==
    /\ ep.h[t].pc = "idle"
    /\ \A u \in Tasks : u < t => ep.h[u].pc # "idle"
    /\ ep.n < MaxRequests
    /\ IF ~exists
       THEN /\ view' = HTTPException("search", 404, 0)
            /\ ep' = [ep EXCEPT !.n = @ + 1]
            /\ UNCHANGED store
       ELSE LET s == create_image_search(store, url, clock)
                l == EpLookup(url)
                e == [ep EXCEPT !.n = @ + 1,
                                !.h[t] = [pc |-> "searching", url |-> url,
                                          search_id |-> Len(s.searches)]]
            IN IF l.hit
               THEN Respond(t, [e EXCEPT !.hits = @ \cup {Len(s.searches)}], s,
                            Return(l.result), TRUE, ep.body[url])
               ELSE ep' = e /\ store' = s /\ view' = None
    /\ UNCHANGED <<clock, ticks, cache_decorator, redis_ok, api_key, task, last, started,
                   _cache, _memory_cache, redis_db, lastDone, pair, dd, crop>>

\* the gateway call of a handler ends (d1: the call, d2: the second call
\* redis_cache makes when the first one raises); the
\* wrapper stores the result and the handler runs to its return.  The requests
\* and sleeps of the call are the steps of SpecGateway; here they are one step.
GatewayReturns(t, d1, d2) ==
    /\ ep.h[t].pc = "searching"
    /\ LET url == ep.h[t].url
           r == WrapperRun(cache_decorator, [hit |-> FALSE], GatewayResult[d1],
                           GatewayResult[d2])
           d == IF r.calls = 1 THEN d1 ELSE d2
       IN /\ IF r.write
             THEN /\ EpStore(url, r.outcome.value)
                  /\ IF r.outcome.act = "return"
                     THEN Respond(t, [ep EXCEPT !.body[url] = d], store, r.outcome, FALSE, d)
                     ELSE Fail(t, ep, store)
             ELSE /\ UNCHANGED <<_cache, _memory_cache, redis_db>>
                  /\ IF r.outcome.act = "return"
                     THEN Respond(t, ep, store, r.outcome, FALSE, d)
                     ELSE Fail(t, ep, store)
    /\ UNCHANGED <<clock, ticks, cache_decorator, redis_ok, api_key, task, last, started,
                   lastDone, pair, dd, crop>>

\* a background task runs: create_search_results(db, db_search.id, similar_products)
RunBackground(b) ==
    /\ b \in ep.bg
    /\ store' = create_search_results(store, b.search_id, b.products)
    /\ ep' = [ep EXCEPT !.bg = @ \ {b}]
    /\ view' = None
    /\ UNCHANGED <<clock, ticks, cache_decorator, redis_ok, api_key, task, last, started,
                   _cache, _memory_cache, redis_db, lastDone, pair, dd, crop>>

\* GET /searches/{search_id}
GetSearchResults(search_id) ==
    /\ LET db_search == get_search_by_id(store, search_id)
       IN view' = IF db_search = None
                  THEN HTTPException("fetch", 404, search_id)
                  ELSE SimilarProductsResponse("fetch", search_id,
                                               ResultsOf(store, search_id), FALSE, "raise")
    /\ UNCHANGED <<clock, ticks, cache_decorator, redis_ok, api_key, task, last, started,
                   _cache, _memory_cache, redis_db, lastDone, pair, store, ep, dd, crop>>

EndpointInit ==
    /\ InitCache
    /\ InitStore
    /\ dd = IdleDedup
    /\ crop = IdleCrop
    /\ cache_decorator \in {"async_cache", "redis_cache"}
    /\ redis_ok \in BOOLEAN
    /\ cache_decorator = "async_cache" => ~redis_ok
    /\ api_key = TRUE

EpSearch == \E t \in Tasks, url \in Urls, exists \in BOOLEAN : SearchProducts(t, url, exists)
EpGateway ==
    \E t \in Tasks, c1 \in GatewayCalls, c2 \in GatewayCalls :
        /\ c2 # "raise" => GatewayResult[c1].act = "raise"
                              /\ AfterRaise(cache_decorator, FALSE) = "call_again"
        /\ GatewayReturns(t, c1, c2)
EpBackground == \E b \in ep.bg : RunBackground(b)
EpFetch == \E search_id \in 1..(Len(store.searches) + 1) : GetSearchResults(search_id)

EndpointNext == EpSearch \/ EpGateway \/ EpBackground \/ EpFetch

SpecEndpoint == EndpointInit /\ [][EndpointNext]_vars

---------------------------------------------------------------------------
(* The two-pass deduplicator (app/utils/deduplication.py).  Ratios and     *)
(* thresholds are in hundredths: a comparison x / y >= 0.70 of the code is *)
(* 100 * x >= 70 * y here, which agrees with the floating-point            *)
(* comparison on every pair of lengths a title can have.                   *)

MaxItems == 32   \* length of the generated product lists
MaxShort == 3    \* length of the product lists over the title pool

SimilarityThreshold == 70   \* similarity_threshold = 0.70
LenRatio == 70              \* if len_ratio < 0.7
ShortTitle == 10            \* if min(len(title1), len(title2)) < 10
ShortBonus == 10            \* threshold + 0.1
DedupFloor == 20            \* len(unique_products) < 20 and len(products) > 20
DedupStop == 30             \* if len(unique_products) >= 30: break

Min2(a, b) == IF a <= b THEN a ELSE b
Max2(a, b) == IF a >= b THEN a ELSE b

The == <<"t", "h", "e">>
Shoes == <<"s", "h", "o", "e", "s">>
Premium == <<"p", "r", "e", "m", "i", "u", "m">>

\* stop_words
StopWords ==
    {The, <<"a">>, <<"a", "n">>, <<"a", "n", "d">>, <<"o", "r">>, <<"b", "u", "t">>,
     <<"i", "n">>, <<"o", "n">>, <<"a", "t">>, <<"t", "o">>, <<"f", "o", "r">>,
     <<"w", "i", "t", "h">>, <<"b", "y">>}

RECURSIVE Join(_)
\* ' '.join(words), as a sequence of characters
Join(words) ==
    IF words = << >> THEN << >>
    ELSE IF Len(words) = 1 THEN words[1]
    ELSE words[1] \o <<" ">> \o Join(Tail(words))

\* len(title) of the raw title: the words, the parentheses, the spaces between
RawLen(title) ==
    Len(Join([i \in 1..Len(title) |->
                IF title[i].paren THEN <<"(">> \o title[i].w \o <<")">> ELSE title[i].w]))

\* normalize_title of utils/deduplication: lower case, punctuation removed
\* (a parenthesised word stays, without its parentheses), spaces collapsed,
\* stop words removed
deduplication_normalize_title(title) ==
    LET words == [i \in 1..Len(title) |-> title[i].w]
    IN Join(SelectSeqBy(words, {i \in 1..Len(words) : words[i] \notin StopWords}))

RECURSIVE RunLen(_, _, _, _)
\* length of the common run of a from i and b from j
RunLen(a, b, i, j) ==
    IF i > Len(a) \/ j > Len(b) \/ a[i] # b[j] THEN 0
    ELSE 1 + RunLen(a, b, i + 1, j + 1)

\* SequenceMatcher.find_longest_match: the longest common block, the one
\* that starts earliest in a and, among those, earliest in b
find_longest_match(a, b) ==
    LET run == [i \in 1..Len(a), j \in 1..Len(b) |-> RunLen(a, b, i, j)]
        size == CHOOSE k \in 0..Min2(Len(a), Len(b)) :
                    /\ k = 0 \/ \E i \in 1..Len(a), j \in 1..Len(b) : run[i, j] = k
                    /\ \A i \in 1..Len(a), j \in 1..Len(b) : run[i, j] <= k
        i0 == CHOOSE i \in 1..Len(a) :
                    /\ \E j \in 1..Len(b) : run[i, j] = size
                    /\ \A h \in 1..(i - 1), j \in 1..Len(b) : run[h, j] < size
        j0 == CHOOSE j \in 1..Len(b) :
                    /\ run[i0, j] = size
                    /\ \A h \in 1..(j - 1) : run[i0, h] < size
    IN IF size = 0 THEN [a |-> 0, b |-> 0, size |-> 0] ELSE [a |-> i0, b |-> j0, size |-> size]

RECURSIVE MatchingChars(_, _)
\* sum of the sizes of SequenceMatcher.get_matching_blocks: the longest
\* block, then the same to its left and to its right
MatchingChars(a, b) ==
    IF a = << >> \/ b = << >> THEN 0
    ELSE LET m == find_longest_match(a, b)
         IN IF m.size = 0 THEN 0
            ELSE m.size
                 + MatchingChars(SubSeq(a, 1, m.a - 1), SubSeq(b, 1, m.b - 1))
                 + MatchingChars(SubSeq(a, m.a + m.size, Len(a)),
                                 SubSeq(b, m.b + m.size, Len(b)))

\* variant: no test of the length ratio
is_similar_title_unguarded(title1, title2, threshold) ==
    LET lo == Min2(Len(title1), Len(title2))
    IN 100 * 2 * MatchingChars(title1, title2)
          >= (IF lo < ShortTitle THEN threshold + ShortBonus ELSE threshold)
               * (Len(title1) + Len(title2))

\* is_similar_title: SequenceMatcher(None, title1, title2).ratio() is
\* 2 * matches / (len(title1) + len(title2))
is_similar_title(title1, title2, threshold) ==
    LET lo == Min2(Len(title1), Len(title2))
        hi == Max2(Len(title1), Len(title2))
    IN IF hi = 0 \/ 100 * lo < LenRatio * hi
       THEN FALSE
       ELSE 100 * 2 * MatchingChars(title1, title2)
               >= (IF lo < ShortTitle THEN threshold + ShortBonus ELSE threshold)
                    * (Len(title1) + Len(title2))

\* the lists and sets of a pass before its loop
NoneSeen ==
    [unique_products |-> << >>, seen_titles |-> {}, seen_normalized_titles |-> {},
     trace |-> << >>]   \* history: per product, what the loop did with it and why

\* a product is skipped or dropped
Skip(acc, why, by) == [acc EXCEPT !.trace = Append(@, [why |-> why, by |-> by])]

\* the kept products that make a loop drop a product: `same` tells whether
\* a kept product counts as the same product
KeptLike(acc, same(_)) ==
    {acc.unique_products[k].link : k \in {h \in 1..Len(acc.unique_products) :
                                            same(acc.unique_products[h])}}

\* variant: a kept product goes to the head of the list
KeepAtHead(acc, product, normalized_title) ==
    [unique_products |-> <<product>> \o acc.unique_products,
     seen_titles |-> acc.seen_titles \cup {product.title},
     seen_normalized_titles |-> acc.seen_normalized_titles \cup {normalized_title},
     trace |-> Append(acc.trace, [why |-> "kept", by |-> {}])]

\* unique_products.append(product); seen_titles.add(title);
\* seen_normalized_titles.add(normalized_title)
Keep(acc, product, normalized_title) ==
    [unique_products |-> Append(acc.unique_products, product),
     seen_titles |-> acc.seen_titles \cup {product.title},
     seen_normalized_titles |-> acc.seen_normalized_titles \cup {normalized_title},
     trace |-> Append(acc.trace, [why |-> "kept", by |-> {}])]

RECURSIVE FuzzyPass(_, _, _)
\* the first loop of filter_duplicates, from product i on
FuzzyPass(products, i, acc) ==
    IF i > Len(products) THEN acc
    ELSE LET title == products[i].title
             normalized_title == deduplication_normalize_title(title)
             Similar(p) == is_similar_title(normalized_title,
                                            deduplication_normalize_title(p.title),
                                            SimilarityThreshold)
         IN FuzzyPass(products, i + 1,
               IF title = << >> THEN Skip(acc, "empty", {})
               ELSE IF title \in acc.seen_titles
               THEN Skip(acc, "exact", KeptLike(acc, LAMBDA p : p.title = title))
               ELSE IF \E seen_title \in acc.seen_normalized_titles :
                          is_similar_title(normalized_title, seen_title, SimilarityThreshold)
               THEN Skip(acc, "similar", KeptLike(acc, Similar))
               ELSE Keep(acc, products[i], normalized_title))

\* variant: the second loop never breaks
NeverBreak(unique_products) == FALSE

\* if len(unique_products) >= 30: break
Break(unique_products) == Len(unique_products) >= DedupStop

RECURSIVE ExactPass(_, _, _)
\* the second loop of filter_duplicates, from product i on: exact titles
\* only; the break follows the append, so the loop goes on only while it
\* has not broken
ExactPass(products, i, acc) ==
    IF i > Len(products) \/ Break(acc.unique_products) THEN acc
    ELSE LET title == products[i].title
         IN ExactPass(products, i + 1,
               IF title = << >> \/ title \in acc.seen_titles THEN acc
               ELSE Keep(acc, products[i], << >>))

\* filter_duplicates of utils/deduplication
deduplication_filter_duplicates(products) ==
    LET unique_products == FuzzyPass(products, 1, NoneSeen).unique_products
    IN IF Len(unique_products) < DedupFloor /\ Len(products) > DedupFloor
       THEN ExactPass(products, 1, NoneSeen).unique_products
       ELSE unique_products

\* the characters a generated title is made of
Letters ==
    <<"a", "b", "c", "d", "e", "f", "g", "h", "i", "j", "k", "l", "m", "n", "o", "p",
      "q", "r", "s", "t", "u", "v", "w", "x", "y", "z">> \o Digit

\* a product of a list; its link tells the products of the list apart
Listed(title, i) == [title |-> title, price |-> "$10", link |-> i]

TitleTheRedShoe == <<Tok(The, TRUE, FALSE), Tok(Red, TRUE, FALSE), Tok(Shoe, TRUE, FALSE)>>
TitleRedShoes == <<Tok(Red, TRUE, FALSE), Tok(Shoes, TRUE, FALSE)>>
TitlePremiumBag == <<Tok(Premium, TRUE, FALSE), Tok(Bag, TRUE, FALSE)>>
TitlePremiumBagShoe == Append(TitlePremiumBag, Tok(Shoe, TRUE, FALSE))
TitleThePremiumBag == <<Tok(The, TRUE, FALSE)>> \o TitlePremiumBag

\* the titles of the short lists: none, and titles that are equal, equal
\* once normalized, similar, or similar apart from their lengths
TitlePool ==
    {<< >>, TitleShoe, TitleShoeVariant, TitleTheRedShoe, TitleRedShoes,
     TitlePremiumBag, TitlePremiumBagShoe, TitleThePremiumBag}

\* the generated lists: their titles by position
Kinds == {"numbered", "same", "pairs", "letters", "blanks", "variants"}

TitleOf(kind, i) ==
    CASE kind = "numbered" -> TitleNo(i)
      [] kind = "same" -> TitleNo(1)
      [] kind = "pairs" -> TitleNo((i + 1) \div 2)
      [] kind = "letters" -> <<Tok([k \in 1..ShortTitle |-> Letters[i]], FALSE, FALSE)>>
      [] kind = "blanks" -> IF i % 2 = 0 THEN << >> ELSE TitleNo(i)
      [] OTHER -> IF i % 2 = 0 THEN TitleNoVariant(i - 1) ELSE TitleNo(i)

\* the product lists filter_duplicates is called with
DedupInputs ==
    {[i \in 1..n |-> Listed(TitleOf(kind, i), i)] : kind \in Kinds, n \in 0..MaxItems}
    \cup UNION {{[i \in 1..n |-> Listed(titles[i], i)] : titles \in [1..n -> TitlePool]} :
                    n \in 0..MaxShort}

\* deduplication.filter_duplicates(products)
DedupCall ==
    /\ "deduplication" \notin dd.called
    /\ LET fuzzy == FuzzyPass(dd.products, 1, NoneSeen)
       IN dd' = [dd EXCEPT !.called = @ \cup {"deduplication"},
                           !.unique = fuzzy.unique_products,
                           !.trace = fuzzy.trace,
                           !.result = deduplication_filter_duplicates(dd.products)]
    /\ UNCHANGED <<clock, ticks, cache_decorator, redis_ok, api_key, task, last, started,
                   _cache, _memory_cache, redis_db, lastDone, pair, store, ep, view, crop>>

\* serpapi_service.filter_duplicates(products)
GatewayDedupCall ==
    /\ "gateway" \notin dd.called
    /\ dd' = [dd EXCEPT !.called = @ \cup {"gateway"},
                        !.gateway = filter_duplicates(dd.products)]
    /\ UNCHANGED <<clock, ticks, cache_decorator, redis_ok, api_key, task, last, started,
                   _cache, _memory_cache, redis_db, lastDone, pair, store, ep, view, crop>>

DedupInit ==
    /\ InitCache
    /\ InitStore
    /\ crop = IdleCrop
    /\ cache_decorator = "direct"
    /\ redis_ok = FALSE
    /\ api_key = TRUE
    /\ dd \in {[IdleDedup EXCEPT !.products = p] : p \in DedupInputs}

DedupNext == DedupCall \/ GatewayDedupCall

SpecDedup == DedupInit /\ [][DedupNext]_vars

---------------------------------------------------------------------------
(* The queries of the Search Record Store (app/services/db_service.py).    *)
(* search_time is datetime.utcnow() at the insert, in ticks of the clock:  *)
(* two searches created within one tick have equal search_time.            *)

MaxStoreSearches == 2   \* image_searches rows

\* an optional argument: absent (nothing) or given
Absent(nothing) == [given |-> FALSE, value |-> nothing]
Given(value) == [given |-> TRUE, value |-> value]

\* a price string is a sequence of numbers (in hundredths) and other text
Num(n) == [kind |-> "num", n |-> n, text |-> ""]
Txt(text) == [kind |-> "text", n |-> 0, text |-> text]

PriceTen == <<Txt("$"), Num(1000)>>                    \* "$10.00"
PriceTwentyFive == <<Txt("$"), Num(2550)>>             \* "$25.50"
PriceOnRequest == <<Txt("on request")>>                \* no number
PriceLooksLikeTest == <<Num(500), Txt(" <= "), Num(2000)>>   \* "5 <= 20.0"

Nike == <<"N", "i", "k", "e">>
Adidas == <<"a", "d", "i", "d", "a", "s">>

Product(title, price, brand, source) ==
    [title |-> title, price |-> price, brand |-> brand, source |-> source]

\* the product lists create_search_results is called with
StoredLists ==
    {<<Product(TitleShoe, PriceTen, Nike, "shopping_results"),
       Product(TitleBag, PriceTwentyFive, Adidas, "visual_matches")>>,
     <<Product(TitleBag, PriceOnRequest, Nike, "visual_matches"),
       Product(TitleShoe, PriceLooksLikeTest, Adidas, "shopping_results")>>}

\* lower() of a character
Lower(c) == CASE c = "N" -> "n" [] c = "I" -> "i" [] c = "A" -> "a" [] OTHER -> c

\* string LIKE '%' || part || '%' after lower() on both sides: part occurs in
\* the string, where "_" in part stands for any one character
ILike(string, part) ==
    \E at \in 0..(Len(string) - Len(part)) :
        \A i \in 1..Len(part) :
            part[i] = "_" \/ Lower(part[i]) = Lower(string[at + i])

\* price REGEXP '[0-9]+(\.[0-9]+)? <op> <bound>': the pattern is searched
\* for in the price string, so it matches where a number is followed by the
\* text " <op> " and the text of the bound
Regexp(price, op, bound) ==
    \E i \in 1..(Len(price) - 2) :
        /\ price[i].kind = "num"
        /\ price[i + 1] = Txt(op)
        /\ price[i + 2] = Num(bound)

\* the permutations of 1..n
Perms(n) == {p \in [1..n -> 1..n] : \A i, j \in 1..n : p[i] = p[j] => i = j}

\* ORDER BY search_time DESC: the orders the engine may give the rows; rows
\* of equal search_time come in the order it visits them
OrderBySearchTimeDesc(rows) ==
    {[i \in 1..Len(rows) |-> rows[p[i]]] :
        p \in {q \in Perms(Len(rows)) :
                 \A i, j \in 1..Len(rows) :
                    i < j => rows[q[i]].search_time >= rows[q[j]].search_time}}

\* query.offset(skip).limit(limit).all()
OffsetLimit(rows, skip, limit) == SubSeq(rows, skip + 1, Min2(Len(rows), skip + limit))

\* get_recent_searches: the lists it may return
get_recent_searches(s, skip, limit) ==
    {OffsetLimit(rows, skip, limit) : rows \in OrderBySearchTimeDesc(s.searches)}

\* the WHERE clause get_filtered_results builds
Matches(row, search_id, filters) ==
    /\ row.search_id = search_id
    /\ filters.brand.given /\ filters.brand.value # << >> =>
          \E k \in 1..Len(filters.brand.value) : ILike(row.brand, filters.brand.value[k])
    /\ filters.price_min.given => Regexp(row.price, " >= ", filters.price_min.value)
    /\ filters.price_max.given => Regexp(row.price, " <= ", filters.price_max.value)
    /\ filters.source.given /\ filters.source.value # << >> =>
          \E k \in 1..Len(filters.source.value) : row.source = filters.source.value[k]

\* get_filtered_results: (results, total), the rows in the order of the table
get_filtered_results(s, search_id, filters, skip, limit) ==
    LET rows == SelectSeq(s.results, LAMBDA row : Matches(row, search_id, filters))
    IN [results |-> OffsetLimit(rows, skip, limit), total |-> Len(rows)]

\* the filters of the queries
NoFilter ==
    [brand |-> Absent(<< >>), price_min |-> Absent(0), price_max |-> Absent(0),
     source |-> Absent(<< >>)]

Filters ==
    {[NoFilter EXCEPT !.brand = b, !.source = s] :
        b \in {Absent(<< >>), Given(<<<<"n", "i", "k">>>>),
               Given(<<<<"N", "I">>, <<"d", "i", "d">>>>), Given(<<<<"_">>>>)},
        s \in {Absent(<< >>), Given(<<"shopping_results">>)}}
    \cup {[NoFilter EXCEPT !.price_min = lo, !.price_max = hi] :
            lo \in {Absent(0), Given(1000)}, hi \in {Absent(0), Given(2000)}}
    \cup {[NoFilter EXCEPT !.brand = Given(<<<<"n", "i", "k">>>>), !.price_max = Given(2000)]}

\* a search is created
StoreSearch ==
    /\ Len(store.searches) < MaxStoreSearches
    /\ store' = create_image_search(store, "u1", clock)
    /\ view' = None
    /\ UNCHANGED <<clock, ticks, cache_decorator, redis_ok, api_key, task, last, started,
                   _cache, _memory_cache, redis_db, lastDone, pair, ep, dd, crop>>

\* the results of a search are written, once, by its background task
StoreResults(search_id, products) ==
    /\ ResultsOf(store, search_id) = << >>
    /\ store' = create_search_results(store, search_id, products)
    /\ view' = None
    /\ UNCHANGED <<clock, ticks, cache_decorator, redis_ok, api_key, task, last, started,
                   _cache, _memory_cache, redis_db, lastDone, pair, ep, dd, crop>>

\* get_recent_searches(db, skip, limit); a query leaves the store as it is,
\* and one query is observed between two steps of the store or the clock
ListRecent(skip, limit) ==
    /\ view = None
    /\ \E rows \in get_recent_searches(store, skip, limit) :
          view' = [kind |-> "recent", skip |-> skip, limit |-> limit,
                   ids |-> [i \in 1..Len(rows) |-> rows[i].id]]
    /\ UNCHANGED <<clock, ticks, cache_decorator, redis_ok, api_key, task, last, started,
                   _cache, _memory_cache, redis_db, lastDone, pair, store, ep, dd, crop>>

\* get_filtered_results(db, search_id, filters, skip, limit)
FilterResults(search_id, filters, skip, limit) ==
    /\ view = None
    /\ LET r == get_filtered_results(store, search_id, filters, skip, limit)
       IN view' = [kind |-> "filtered", search_id |-> search_id, filters |-> filters,
                   skip |-> skip, limit |-> limit,
                   ids |-> [i \in 1..Len(r.results) |-> r.results[i].id],
                   total |-> r.total]
    /\ UNCHANGED <<clock, ticks, cache_decorator, redis_ok, api_key, task, last, started,
                   _cache, _memory_cache, redis_db, lastDone, pair, store, ep, dd, crop>>

QueryInit ==
    /\ InitCache
    /\ InitStore
    /\ dd = IdleDedup
    /\ crop = IdleCrop
    /\ cache_decorator = "direct"
    /\ redis_ok = FALSE
    /\ api_key = TRUE

QCreate == StoreSearch
QWrite == \E search_id \in 1..Len(store.searches), products \in StoredLists :
              StoreResults(search_id, products)
QTick == view = None /\ Tick(1)
QRecent == \E skip \in 0..MaxStoreSearches, limit \in 1..MaxStoreSearches : ListRecent(skip, limit)
QFilter == \E search_id \in 1..Len(store.searches), filters \in Filters,
              skip \in 0..1, limit \in 1..2 :
              FilterResults(search_id, filters, skip, limit)

QueryNext == QCreate \/ QWrite \/ QTick \/ QRecent \/ QFilter

SpecQuery == QueryInit /\ [][QueryNext]_vars

---------------------------------------------------------------------------
(* Cropping an uploaded image: POST /clip (app/api/endpoints/images.py)    *)
(* and clip_image (app/utils/image_processing.py), with USE_CLOUDINARY     *)
(* false, its default.  The upload folder is a set of image files; an      *)
(* uploaded file is named by the number of its upload, its crop by that    *)
(* name followed by "_clipped".                                            *)

MaxUploads == 1   \* images uploaded in one behaviour
MaxSide == 1      \* width and height of the small image

\* an image file of the upload folder
ImageFile(name, clipped, width, height) ==
    [name |-> name, clipped |-> clipped, width |-> width, height |-> height]

\* the images that are uploaded: the 100 x 100 test image and a small one
UploadSizes == {<<100, 100>>, <<MaxSide, MaxSide>>}

\* the rectangles (x, y, width, height) of the crop requests: all the small
\* ones, and some at the sides and inside of the 100 x 100 image
Rectangles ==
    ((-1..MaxSide) \X (-1..MaxSide) \X (-1..(MaxSide + 1)) \X (-1..(MaxSide + 1)))
    \cup {<<10, 10, 50, 50>>, <<10, 10, 50, 30>>, <<60, 60, 50, 50>>,
          <<0, 0, 100, 100>>, <<0, 0, 101, 100>>, <<50, 50, 50, 51>>,
          <<-1, 10, 50, 50>>, <<60, 10, -50, 50>>, <<10, 10, 0, 50>>}

\* os.path.exists(image_path)
Exists(images, name) == \E f \in images : f.name = name /\ ~f.clipped

\* Image.open(image_path).size
get_image_dimensions(images, name) ==
    LET f == CHOOSE f \in images : f.name = name /\ ~f.clipped
    IN <<f.width, f.height>>

\* clipped_img.save(clipped_image_path): the file is written or overwritten
Save(images, file) ==
    {f \in images : ~(f.name = file.name /\ f.clipped = file.clipped)} \cup {file}

\* the coordinate check of the endpoint and of _clip_image_sync
InvalidCoordinates(x, y, width, height, size) ==
    x < 0 \/ y < 0 \/ x + width > size[1] \/ y + height > size[2]

\* variant: width and height of zero are let through
NotPositiveStrict(width, height) == width < 0 \/ height < 0

\* the check at the head of clip_image
NotPositive(width, height) == width <= 0 \/ height <= 0

\* img.crop((x, y, x + width, y + height)): the size of the box
CropSize(x, y, width, height) == <<(x + width) - x, (y + height) - y>>

\* the response of /clip, with the request and the image size it was for
ClipResponse(status, name, x, y, width, height, size, saved) ==
    [status |-> status, name |-> name, x |-> x, y |-> y, width |-> width,
     height |-> height, size |-> size,
     saved |-> saved]   \* history: a cropped image was written

\* _clip_image_sync: ValueError (a 500 of the endpoint), or the saved crop
ClipImageSync(name, x, y, width, height) ==
    LET size == get_image_dimensions(crop.images, name)
        box == CropSize(x, y, width, height)
    IN IF InvalidCoordinates(x, y, width, height, size)
       THEN crop' = [crop EXCEPT
                !.response = ClipResponse(500, name, x, y, width, height, size, FALSE)]
       ELSE crop' = [crop EXCEPT
                !.images = Save(@, ImageFile(name, TRUE, box[1], box[2])),
                !.response = ClipResponse(200, name, x, y, width, height, size, TRUE)]

\* POST /upload: the file is saved under a new name
UploadImage(size) ==
    /\ crop.n < MaxUploads
    /\ crop' = [crop EXCEPT !.n = @ + 1,
                            !.images = Save(@, ImageFile(crop.n + 1, FALSE, size[1], size[2])),
                            !.response = None]
    /\ UNCHANGED <<clock, ticks, cache_decorator, redis_ok, api_key, task, last, started,
                   _cache, _memory_cache, redis_db, lastDone, pair, store, ep, view, dd>>

\* POST /clip with image_path, x, y, width, height; one request is observed
\* between two uploads
ClipUploadedImage(name, x, y, width, height) ==
    /\ crop.response = None
    /\ IF ~Exists(crop.images, name)
       THEN crop' = [crop EXCEPT
                !.response = ClipResponse(404, name, x, y, width, height, <<0, 0>>, FALSE)]
       ELSE LET size == get_image_dimensions(crop.images, name)
            IN IF \/ InvalidCoordinates(x, y, width, height, size)
                  \/ NotPositive(width, height)
               THEN crop' = [crop EXCEPT
                        !.response = ClipResponse(400, name, x, y, width, height, size, FALSE)]
               ELSE ClipImageSync(name, x, y, width, height)
    /\ UNCHANGED <<clock, ticks, cache_decorator, redis_ok, api_key, task, last, started,
                   _cache, _memory_cache, redis_db, lastDone, pair, store, ep, view, dd>>

CropInit ==
    /\ InitCache
    /\ InitStore
    /\ dd = IdleDedup
    /\ crop = IdleCrop
    /\ cache_decorator = "direct"
    /\ redis_ok = FALSE
    /\ api_key = TRUE

CropUpload == \E size \in UploadSizes : UploadImage(size)
CropClip == \E name \in 1..MaxUploads, r \in Rectangles :
               ClipUploadedImage(name, r[1], r[2], r[3], r[4])

CropNext == CropUpload \/ CropClip

SpecCrop == CropInit /\ [][CropNext]_vars

---------------------------------------------------------------------------
(* Image references at the endpoints /clip, /search and /dimensions        *)
(* (app/api/endpoints/images.py).  A reference is a local path, which      *)
(* exists once it was uploaded, or a remote URL, told by what a GET of it  *)
(* gives: the image ("ok"), a status other than 200 ("not_found") or no    *)
(* response at all ("unreachable").  Each handler is one step here; the    *)
(* deferred write of /search is part of the step.                          *)

\* an image reference
Ref(remote, name, get) == [remote |-> remote, name |-> name, get |-> get]

Refs ==
    {Ref(FALSE, name, "file") : name \in 1..MaxUploads}
    \cup {Ref(TRUE, 0, get) : get \in {"ok", "not_found", "unreachable"}}

\* the rectangles of the crop requests on a reference
RefRectangles == {<<10, 10, 50, 30>>, <<60, 60, 50, 50>>, <<0, 0, 1, 1>>}

\* image_path.startswith(('http://', 'https://')) or os.path.exists(image_path)
RefExists(images, ref) == ref.remote \/ Exists(images, ref.name)

\* get_image_dimensions(image_path): the size, or the HTTPException it raises
ImageDimensions(images, ref) ==
    IF ref.remote
    THEN CASE ref.get = "ok" -> [raise |-> FALSE, status |-> 200, size |-> <<100, 100>>]
           [] ref.get = "not_found" -> [raise |-> TRUE, status |-> 404, size |-> <<0, 0>>]
           [] OTHER -> [raise |-> TRUE, status |-> 500, size |-> <<0, 0>>]
    ELSE IF ~Exists(images, ref.name)
         THEN [raise |-> TRUE, status |-> 404, size |-> <<0, 0>>]
         ELSE [raise |-> FALSE, status |-> 200,
               size |-> get_image_dimensions(images, ref.name)]

\* the response of an endpoint to a request with an image reference
RefResponse(endpoint, ref, exists, status) ==
    [kind |-> "image", endpoint |-> endpoint, status |-> status, ref |-> ref,
     exists |-> exists]   \* history: the local path existed at the request

\* GET /dimensions/{image_path}: `except Exception` takes every exception of
\* get_image_dimensions, its HTTPException too
GetDimensions(ref) ==
    /\ LET d == ImageDimensions(crop.images, ref)
           status == IF ~RefExists(crop.images, ref) THEN 404
                     ELSE IF d.raise THEN 500 ELSE 200
       IN view' = RefResponse("dimensions", ref, RefExists(crop.images, ref), status)
    /\ UNCHANGED <<clock, ticks, cache_decorator, redis_ok, api_key, task, last, started,
                   _cache, _memory_cache, redis_db, lastDone, pair, store, ep, dd, crop>>

\* POST /clip: `except HTTPException: raise` hands on the status raised
\* below; Image.open of a URL fails in _clip_image_sync
ClipReference(ref, x, y, width, height) ==
    /\ LET d == ImageDimensions(crop.images, ref)
           status == IF ~RefExists(crop.images, ref) THEN 404
                     ELSE IF d.raise THEN d.status
                     ELSE IF \/ InvalidCoordinates(x, y, width, height, d.size)
                             \/ NotPositive(width, height) THEN 400
                     ELSE IF ref.remote THEN 500 ELSE 200
           box == CropSize(x, y, width, height)
       IN /\ view' = RefResponse("clip", ref, RefExists(crop.images, ref), status)
          /\ crop' = IF status = 200
                     THEN [crop EXCEPT
                             !.images = Save(@, ImageFile(ref.name, TRUE, box[1], box[2]))]
                     ELSE crop
    /\ UNCHANGED <<clock, ticks, cache_decorator, redis_ok, api_key, task, last, started,
                   _cache, _memory_cache, redis_db, lastDone, pair, store, ep, dd>>

\* POST /search with no cache in front of the gateway: the check of the
\* local path, create_image_search, the gateway call, the deferred write
SearchReference(ref, call) ==
    /\ Len(store.searches) < MaxRequests
    /\ IF ~RefExists(crop.images, ref)
       THEN /\ view' = RefResponse("search", ref, FALSE, 404)
            /\ UNCHANGED store
       ELSE LET s == create_image_search(store, ref.name, clock)
                r == GatewayResult[call]
            IN IF r.act = "return"
               THEN /\ store' = create_search_results(s, Len(s.searches), r.value)
                    /\ view' = RefResponse("search", ref, TRUE, 200)
               ELSE /\ store' = s
                    /\ view' = RefResponse("search", ref, TRUE, 500)
    /\ UNCHANGED <<clock, ticks, cache_decorator, redis_ok, api_key, task, last, started,
                   _cache, _memory_cache, redis_db, lastDone, pair, ep, dd, crop>>

ReferenceInit ==
    /\ InitCache
    /\ InitStore
    /\ dd = IdleDedup
    /\ crop = IdleCrop
    /\ cache_decorator = "direct"
    /\ redis_ok = FALSE
    /\ api_key = TRUE

RefUpload == \E size \in UploadSizes : UploadImage(size)
RefDimensions == \E ref \in Refs : GetDimensions(ref)
RefClip == \E ref \in Refs, r \in RefRectangles : ClipReference(ref, r[1], r[2], r[3], r[4])
RefSearch == \E ref \in Refs, call \in GatewayCalls : SearchReference(ref, call)
RefFetch == \E search_id \in 1..(Len(store.searches) + 1) : GetSearchResults(search_id)

ReferenceNext == RefUpload \/ RefDimensions \/ RefClip \/ RefSearch \/ RefFetch

SpecReference == ReferenceInit /\ [][ReferenceNext]_vars

---------------------------------------------------------------------------
(* The normalizer of the gateway (app/services/serpapi_service.py): one    *)
(* provider item becomes one product record.  A string is Str of the       *)
(* sequence of its characters, or None; a JSON value is a number, a        *)
(* string or null.                                                         *)

Str(chars) == [str |-> chars]

\* bool(s) of a string or None
StrTruthy(s) == s # None /\ s.str # << >>

\* a or b
StrOr(a, b) == IF StrTruthy(a) THEN a ELSE b

JNull == [type |-> "null", n |-> 0, s |-> << >>]
JNum(n) == [type |-> "num", n |-> n, s |-> << >>]
JStr(s) == [type |-> "str", n |-> 0, s |-> s]

\* bool(v) of a JSON value
JTruthy(v) == (v.type = "num" /\ v.n # 0) \/ (v.type = "str" /\ v.s # << >>)

\* a or b or None
JOr(a, b) == IF JTruthy(a) THEN a ELSE IF JTruthy(b) THEN b ELSE JNull

DigitChars == {Digit[i] : i \in 1..Len(Digit)}
CurrencySymbols == {"$"}

\* re.sub(r'\s+', ' ', s.strip())
Squeeze(s) ==
    LET one == SelectSeqBy(s, {i \in 1..Len(s) : s[i] # " " \/ (i > 1 /\ s[i - 1] # " ")})
    IN IF one # << >> /\ one[Len(one)] = " " THEN SubSeq(one, 1, Len(one) - 1) ELSE one

RECURSIVE Span(_, _, _)
\* the number of characters of s from position i on that are in the set
Span(s, i, set) == IF i > Len(s) \/ s[i] \notin set THEN 0 ELSE 1 + Span(s, i + 1, set)

\* the end of a match of [\$...]\s*[\d,]+\.?\d* that starts at i, or 0
SymbolMatchEnd(s, i) ==
    IF s[i] \notin CurrencySymbols THEN 0
    ELSE LET j == i + 1 + Span(s, i + 1, {" "})
             k == j + Span(s, j, DigitChars \cup {","})
             l == IF k <= Len(s) /\ s[k] = "." THEN k + 1 ELSE k
         IN IF k = j THEN 0 ELSE l + Span(s, l, DigitChars) - 1

\* the end of a match of \d+[,.]?\d* that starts at i, or 0
NumberMatchEnd(s, i) ==
    LET k == i + Span(s, i, DigitChars)
        l == IF k <= Len(s) /\ s[k] \in {",", "."} THEN k + 1 ELSE k
    IN IF k = i THEN 0 ELSE l + Span(s, l, DigitChars) - 1

\* re.search(...).group(): the leftmost match, or << >>
ReSearch(s, end(_, _)) ==
    LET at == {i \in 1..Len(s) : end(s, i) > 0}
    IN IF at = {} THEN << >>
       ELSE LET i == CHOOSE i \in at : \A j \in at : i <= j
            IN SubSeq(s, i, end(s, i))

\* normalize_price
normalize_price(price_str) ==
    IF ~StrTruthy(price_str) THEN None
    ELSE LET s == Squeeze(price_str.str)
         IN IF ReSearch(s, SymbolMatchEnd) # << >> THEN Str(ReSearch(s, SymbolMatchEnd))
            ELSE IF ReSearch(s, NumberMatchEnd) # << >> THEN Str(ReSearch(s, NumberMatchEnd))
            ELSE Str(s)

\* extract_price_from_text
extract_price_from_text(text) == IF ~StrTruthy(text) THEN None ELSE normalize_price(text)

\* the text of a title: its words, the parentheses, the spaces between (the
\* letters without their case, which no pattern of the prices looks at)
TitleText(title) ==
    Str(Join([i \in 1..Len(title) |->
                IF title[i].paren THEN <<"(">> \o title[i].w \o <<")">> ELSE title[i].w]))

\* extract_brand_from_title of a title without separators, "by" and "from":
\* the first word if it is capitalised
extract_brand_from_title(title) ==
    IF title # << >> /\ title[1].cap /\ ~title[1].paren THEN Str(title[1].w) ELSE None

\* "rating": the value if isinstance(value, (int, float)), else None
RatingOf(item) == IF item.rating.type = "num" THEN item.rating ELSE JNull

\* "reviews_count": item.get("reviews") or item.get("reviews_count") or None
ReviewsCountOf(item) == JOr(item.reviews, item.reviews_count)

\* the product of a visual_matches item
VisualProduct(item) ==
    [title |-> item.title, link |-> item.link, image_url |-> item.thumbnail,
     price |-> IF item.price = None THEN Str(<< >>) ELSE item.price,
     brand |-> extract_brand_from_title(item.title),
     source |-> "visual_matches", description |-> item.snippet,
     rating |-> RatingOf(item), reviews_count |-> ReviewsCountOf(item)]

UnknownProduct ==
    <<Tok(<<"u", "n", "k", "n", "o", "w", "n">>, TRUE, FALSE),
      Tok(<<"p", "r", "o", "d", "u", "c", "t">>, TRUE, FALSE)>>

\* the product of a shopping_results item
ShoppingProduct(item) ==
    [title |-> IF item.title # << >> THEN item.title ELSE UnknownProduct,
     link |-> item.link, image_url |-> item.thumbnail,
     price |-> StrOr(normalize_price(item.price),
                     StrOr(extract_price_from_text(TitleText(item.title)),
                           extract_price_from_text(item.snippet))),
     brand |-> StrOr(extract_brand_from_title(item.title), Str(<< >>)),
     source |-> "shopping_results", description |-> item.snippet,
     rating |-> RatingOf(item), reviews_count |-> ReviewsCountOf(item)]

\* the loop body of process_google_lens_response for an item of a channel
NormalizeItem(channel, item) ==
    IF channel = "visual_matches" THEN VisualProduct(item) ELSE ShoppingProduct(item)

\* the inputs of the normalizer
PriceStrings ==
    {None, Str(<<"$", "1", "0">>), Str(<<"U", "S", "D", " ", "1", "0">>), Str(<<" ">>)}
Snippets ==
    {Str(<< >>), Str(<<"s", "o", "f", "t">>), Str(<<"n", "o", "w", " ", "$", "3", "0">>),
     Str(<<"2", "5", " ", "U", "S", "D">>)}
ItemTitles ==
    {<< >>, TitleShoe, TitleNo(15),
     <<Tok(Shoe, TRUE, FALSE), Tok(<<"$", "2", "5">>, FALSE, FALSE)>>}
Ratings == {JNull, JNum(4), JStr(<<"4", ".", "5">>)}
Reviews == {JNull, JNum(0), JNum(120), JStr(<<"1", ",", "2", "3", "4">>)}
ReviewCounts == {JNull, JNum(7)}

ProviderItems ==
    [title : ItemTitles, snippet : Snippets, price : PriceStrings, rating : Ratings,
     reviews : Reviews, reviews_count : ReviewCounts, link : {"link"},
     thumbnail : {"thumbnail"}]

\* an item of a channel before it is normalized, with the setting of
\* STORE_RAW_DATA the process runs with
Unnormalized(channel, item, store_raw) ==
    [kind |-> "normalizer", channel |-> channel, item |-> item, store_raw |-> store_raw,
     step |-> 0, product |-> None, info |-> None, again |-> None,
     price |-> None, price_again |-> None, title |-> << >>, title_again |-> << >>]

\* process_google_lens_response makes the product of the item
NormalizeProduct ==
    /\ view.step = 0
    /\ view' = [view EXCEPT !.step = 1,
                            !.product = NormalizeItem(view.channel, view.item)]
    /\ UNCHANGED <<clock, ticks, cache_decorator, redis_ok, api_key, task, last, started,
                   _cache, _memory_cache, redis_db, lastDone, pair, store, ep, dd, crop>>

\* extract_product_info, normalize_title and normalize_price are applied: to
\* the product, to its title and to the price string of the item
NormalizeOnce ==
    /\ view.step = 1
    /\ view' = [view EXCEPT !.step = 2,
                            !.info = ProductInfo(view.product, view.store_raw),
                            !.title = normalize_title(view.product.title),
                            !.price = normalize_price(view.item.price)]
    /\ UNCHANGED <<clock, ticks, cache_decorator, redis_ok, api_key, task, last, started,
                   _cache, _memory_cache, redis_db, lastDone, pair, store, ep, dd, crop>>

\* the three are applied to what they returned
NormalizeAgain ==
    /\ view.step = 2
    /\ view' = [view EXCEPT !.step = 3,
                            !.again = ProductInfo(view.info, view.store_raw),
                            !.title_again = normalize_title(view.title),
                            !.price_again = normalize_price(view.price)]
    /\ UNCHANGED <<clock, ticks, cache_decorator, redis_ok, api_key, task, last, started,
                   _cache, _memory_cache, redis_db, lastDone, pair, store, ep, dd, crop>>

NormalizerInit ==
    /\ InitCache
    /\ store = EmptyStore
    /\ ep = IdleEndpoint
    /\ dd = IdleDedup
    /\ crop = IdleCrop
    /\ cache_decorator = "direct"
    /\ redis_ok = FALSE
    /\ api_key = TRUE
    /\ view \in {Unnormalized(channel, item, store_raw) :
                    channel \in {"visual_matches", "shopping_results"},
                    item \in ProviderItems, store_raw \in BOOLEAN}

NormalizerNext == NormalizeProduct \/ NormalizeOnce \/ NormalizeAgain

SpecNormalizer == NormalizerInit /\ [][NormalizerNext]_vars

---------------------------------------------------------------------------
(* Properties of one gateway invocation (SpecGateway) *)

Range(s) == {s[i] : i \in 1..Len(s)}
Transport == {"timeout", "connect"}
IsDone(g) == g.pc = "done"
InFlight(g) == g.pc \in {"attempting", "sleeping"}

\* C1: one invocation of the gateway sends at most 3 requests, whatever the
\* outcomes of its requests are (one request per attempt, attempts 0..2), it
\* can always take its next step while it runs, and it ends in exactly one
\* of a returned non-empty list, an empty list or a raised error.
C1_AtMostThreeRequests ==
    /\ task[1].requests <= 3
    /\ last.requests <= 3
    /\ task[1].pc = "attempting" => task[1].requests = task[1].attempt
    /\ task[1].pc = "sleeping" => task[1].requests = task[1].attempt + 1
    /\ InFlight(task[1]) => ENABLED GatewayNext
    /\ IsDone(last) =>
          /\ last.calls = 1
          /\ last.requests = Len(last.hist)
          /\ Cardinality({k \in {"list", "empty", "raise"} :
                \/ k = "list" /\ last.outcome.act = "return" /\ last.outcome.value # << >>
                \/ k = "empty" /\ last.outcome.act = "return" /\ last.outcome.value = << >>
                \/ k = "raise" /\ last.outcome.act = "raise"}) = 1

\* C1 witness: an invocation that used all 3 requests, over mixed outcomes
C1_Witness ==
    /\ IsDone(last)
    /\ last.requests = 3
    /\ Cardinality(Range(last.hist)) = 3

\* C2: when every attempt ends in a timeout or a connection failure, the
\* gateway makes exactly 3 attempts, sleeps after attempts 0 and 1 only
\* (1 s and 2 s, with jitter) and re-raises the last failure; it returns no list.
C2_TransportFailuresRaiseAfterThree ==
    /\ (IsDone(last) /\ last.hist # << >> /\ Range(last.hist) \subseteq Transport) =>
          /\ last.requests = 3
          /\ last.outcome = Raise(last.hist[3])
          /\ last.slept = <<[after |-> 0, wait |-> 1, jitter |-> TRUE],
                            [after |-> 1, wait |-> 2, jitter |-> TRUE]>>
    /\ (task[1].pc = "sleeping" /\ Range(task[1].hist) \subseteq Transport) =>
          task[1].attempt \in {0, 1}

\* C2 witness: three transport failures in a row, then the raise
C2_Witness ==
    /\ IsDone(last)
    /\ last.hist = <<"timeout", "connect", "timeout">>
    /\ last.outcome.act = "raise"

\* C3 (as claimed): when the provider answers 5xx on all 3 attempts, the
\* search ends as a failure raised to the caller, not as an empty result.
C3_ServerErrorsRaise ==
    (IsDone(last) /\ last.hist = <<"5xx", "5xx", "5xx">>) => last.outcome.act = "raise"

\* C4 (as claimed): when the provider answers 429 on all 3 attempts, the
\* search returns an empty list and raises nothing, whatever the wait hint is.
C4_RateLimitedReturnsEmpty ==
    (IsDone(last) /\ last.hist = <<"429", "429", "429">>) => last.outcome = Return(<< >>)

\* C5: a 4xx status other than 429 ends the search at once with an empty
\* list, at whichever attempt it arrives: it is the last outcome of the
\* call, no sleep follows it and no further request is sent.
C5_ClientErrorEndsAtOnce ==
    /\ "4xx" \notin Range(task[1].hist)
    /\ (IsDone(last) /\ "4xx" \in Range(last.hist)) =>
          /\ last.hist[Len(last.hist)] = "4xx"
          /\ \A i \in 1..(Len(last.hist) - 1) : last.hist[i] # "4xx"
          /\ last.outcome = Return(<< >>)
          /\ last.requests = Len(last.hist)
          /\ Len(last.slept) = Len(last.hist) - 1
          /\ \A i \in 1..Len(last.slept) : last.slept[i].after = i - 1

\* C5 witness: the 4xx arrives at the third attempt, after two retried failures
C5_Witness ==
    /\ IsDone(last)
    /\ Len(last.hist) = 3
    /\ last.hist[3] = "4xx"

---------------------------------------------------------------------------
(* Properties of searches through a cache wrapper (Spec) *)

\* the first gateway call of the search returned a result
Returned(g) == g.first # None /\ g.first.act = "return"
\* the first gateway call of the search raised
Raised(g) == g.first # None /\ g.first.act = "raise"

\* the store of the configured wrapper holds, for the url, exactly the entry
\* (result, written at ts)
EntryIs(url, result, ts) ==
    IF cache_decorator = "redis_cache" /\ redis_ok
    THEN {e \in redis_db : e.key = RedisKey(url)} =
            {[key |-> RedisKey(url), value |-> JsonDumps(result), expireAt |-> ts + TTL]}
    ELSE IF cache_decorator = "redis_cache"
    THEN {e \in _memory_cache : e.key = RedisKey(url)} =
            {[key |-> RedisKey(url), result |-> result, timestamp |-> ts]}
    ELSE {e \in _cache : e.key = AsyncKey(url)} =
            {[key |-> AsyncKey(url), result |-> result, timestamp |-> ts]}

\* C6 (as claimed): under redis_cache a search whose gateway call raised
\* after its 3 attempts hands that failure to the caller with the provider
\* contacted exactly 3 times: the gateway is not run a second time.
C6_RedisFailurePropagatesOnce ==
    cache_decorator = "redis_cache" =>
        /\ \A t \in Tasks : task[t].calls <= 1 /\ task[t].total <= 3
        /\ (IsDone(last) /\ Raised(last)) =>
              /\ last.outcome = last.first
              /\ last.calls = 1
              /\ last.total = 3

\* C7: an entry is served only while it is younger than the TTL.  A search
\* that is served from the cache read an entry of age < TTL and made no
\* gateway call; a search that found an entry of age >= TTL is a miss and
\* calls the gateway; and when that call returns (and the write to the store
\* does not fail), the key holds exactly the fresh result, stamped with the
\* time of the write.
C7_NoStaleEntryServed ==
    /\ (IsDone(last) /\ last.hit) =>
          /\ last.servedAge >= 0
          /\ last.servedAge < TTL
          /\ last.calls = 0
          /\ last.outcome.act = "return"
    /\ (IsDone(last) /\ last.stale) => (~last.hit /\ last.calls >= 1)
    /\ \A t \in Tasks : task[t].stale => (~task[t].hit /\ task[t].calls >= 1)
    /\ (IsDone(last) /\ last.stale /\ Returned(last) /\ last.storeErr = {}) =>
          /\ last.outcome = last.first
          /\ EntryIs(last.url, last.first.value, clock)

\* C7 witness: a search found an entry that was too old, called the gateway
\* and replaced the entry by a different, fresh result
C7_Witness ==
    /\ IsDone(last)
    /\ last.stale
    /\ Returned(last)
    /\ last.replaced # None
    /\ last.replaced.result # last.first.value
    /\ clock - last.replaced.timestamp >= TTL
    /\ EntryIs(last.url, last.first.value, clock)

\* C8: when a read or a write of the shared store raises during a search
\* whose gateway call returns a result, the caller gets exactly that result:
\* the gateway was called once, nothing was served from the store, and once
\* the gateway has returned no further gateway call is made.
C8_StoreFailureFallsBack ==
    /\ (IsDone(last) /\ last.storeErr # {} /\ Returned(last)) =>
          /\ last.calls = 1
          /\ ~last.hit
          /\ ~last.fallback
          /\ last.outcome = last.first
    /\ \A t \in Tasks :
          (InFlight(task[t]) /\ task[t].storeErr # {}) =>
              /\ ~Returned(task[t])
              /\ task[t].first = None => task[t].calls = 1

\* C8 witness: the read and the write of the store both raised in one
\* search, and the caller got the gateway's non-empty result
C8_Witness ==
    /\ IsDone(last)
    /\ last.storeErr = {"read", "write"}
    /\ Returned(last)
    /\ last.outcome.value # << >>
    /\ last.total >= 1

\* C9 (as claimed): run side by side on the same searches, gateway outcomes
\* and clock advances, async_cache and redis_cache (store reachable) take the
\* same hit/miss decision at every search, make the same number of gateway
\* calls and hand the same outcome to the caller.
C9_WrappersAgree ==
    pair.n > 0 => pair.a = pair.b

\* C10: under every interleaving of the searches in flight the process-local
\* cache holds at most one entry per key, every entry is the result and the
\* completion time of one gateway call, and the entry of a key is the one
\* written by the search for it that completed last (none after clear_cache).
C10_LocalCacheWellFormed ==
    cache_decorator = "async_cache" =>
        /\ \A e1, e2 \in _cache : e1.key = e2.key => e1 = e2
        /\ \A e \in _cache : \E u \in Urls : e.key = AsyncKey(u)
        /\ \A u \in Urls :
              {e \in _cache : e.key = AsyncKey(u)} =
                  IF lastDone[u] = None THEN {}
                  ELSE {[key |-> AsyncKey(u), result |-> lastDone[u].result,
                         timestamp |-> lastDone[u].timestamp]}
        /\ (IsDone(last) /\ Returned(last)) => EntryIs(last.url, last.first.value, clock)

\* C10 witness: two searches for one key were in flight together; the one
\* that completed last found the other's entry (absent at its own lookup)
\* and replaced it by its own, different result
C10_Witness ==
    /\ cache_decorator = "async_cache"
    /\ IsDone(last)
    /\ ~last.stale
    /\ Returned(last)
    /\ last.replaced # None
    /\ last.replaced.result # last.first.value
    /\ EntryIs(last.url, last.first.value, clock)

---------------------------------------------------------------------------
(* Properties of the search endpoint and the store (SpecEndpoint) *)

\* a background task holds the write of the search
Pending(search_id) == \E b \in ep.bg : b.search_id = search_id

IsResponse(kind, status) == view # None /\ view.kind = kind /\ view.status = status

\* C11: the ProductResults of a search are written only after the response
\* of that search has been produced: no step changes the rows of a search
\* whose response is not out yet; and a fetch by id made after the response
\* and before the write finds the SearchRequest with zero results.
C11_WriteAfterResponse ==
    /\ [][\A id \in 1..Len(store'.searches) :
            ResultsOf(store', id) # ResultsOf(store, id) => id \in ep.responded]_vars
    /\ [](view # None /\ view.kind = "fetch" /\ view.search_id \in ep.responded
            /\ Pending(view.search_id)
          => view.status = 200 /\ view.results = << >> /\ view.total_results = 0)

\* a fetch in the window of a search whose list is not empty
C11_Witness ==
    /\ IsResponse("fetch", 200)
    /\ view.results = << >>
    /\ view.search_id \in ep.responded
    /\ \E b \in ep.bg : b.search_id = view.search_id /\ b.products # << >>

\* C12: every persisted ProductResult has a non-empty price, whether its
\* search was answered by a gateway call or from a cache entry.
C12_PersistedResultsArePriced ==
    \A i \in 1..Len(store.results) : store.results[i].price # ""

\* rows of a search answered from the cache and rows of one answered by the
\* gateway, computed from a body that holds an item without a price
C12_Witness ==
    /\ \E i \in 1..Len(store.results) : store.results[i].search_id \in ep.hits
    /\ \E i \in 1..Len(store.results) : store.results[i].search_id \notin ep.hits
    /\ \E u \in Urls : \E k \in 1..Len(Body[ep.body[u]]) : Body[ep.body[u]][k].price = ""

\* item i of a body has a price and is the first one of its normalized title
Eligible(data, i) ==
    /\ data[i].price # ""
    /\ \A j \in 1..(i - 1) : normalize_title(data[j].title) # normalize_title(data[i].title)

\* per gateway call: the first MAX_SIMILAR_PRODUCTS eligible items of its body, in order
FirstEligible ==
    [c \in GatewayCalls |->
        LET ok == {i \in 1..Len(Body[c]) : Eligible(Body[c], i)}
        IN SelectSeqBy(Body[c],
              {i \in ok : Cardinality({j \in ok : j <= i}) <= MAX_SIMILAR_PRODUCTS})]

\* C13: the list a search returns has at most MAX_SIMILAR_PRODUCTS items,
\* from a gateway call or from the cache, and it is the first items, in
\* order, of the body's deduplicated and priced items.
C13_ReturnedListCapped ==
    IsResponse("search", 200) =>
        /\ Len(view.results) <= MAX_SIMILAR_PRODUCTS
        /\ view.total_results = Len(view.results)
        /\ view.results = FirstEligible[view.call]

\* a cached list that the cap cut
C13_Witness ==
    /\ IsResponse("search", 200)
    /\ view.hit
    /\ Len(view.results) = MAX_SIMILAR_PRODUCTS
    /\ Cardinality({i \in 1..Len(Body[view.call]) : Eligible(Body[view.call], i)})
          > MAX_SIMILAR_PRODUCTS

---------------------------------------------------------------------------
(* Properties of the deduplicators (SpecDedup) *)

Deduplicated == "deduplication" \in dd.called

\* the floor of filter_duplicates applies: a list of more than DedupFloor
\* products of which the first loop kept fewer than DedupFloor
FloorApplies ==
    Deduplicated /\ Len(dd.products) > DedupFloor /\ Len(dd.unique) < DedupFloor

\* list is made of products of `products`, in the order they have there,
\* and each of them is the first product of `products` with its title
OrderedFirsts(list, products) ==
    /\ \A i \in 1..Len(list) :
          /\ list[i].link \in 1..Len(products)
          /\ list[i] = products[list[i].link]
          /\ \A j \in 1..(list[i].link - 1) : products[j].title # list[i].title
    /\ \A i \in 1..(Len(list) - 1) : list[i].link < list[i + 1].link

\* C14: the output of deduplication is a subsequence of its input: kept
\* products are input products in their input order, and a kept product is
\* the first one of its title.  It holds of the first loop of the two-pass
\* filter_duplicates, of what the function returns (the first loop's list or
\* the exact-only loop's), and of the gateway's filter_duplicates.
C14_DedupKeepsOrder ==
    /\ Deduplicated => /\ OrderedFirsts(dd.unique, dd.products)
                       /\ OrderedFirsts(dd.result, dd.products)
    /\ "gateway" \in dd.called => OrderedFirsts(dd.gateway, dd.products)

\* both deduplicators dropped products, the two-pass one in its exact-only loop
C14_Witness ==
    /\ dd.called = {"deduplication", "gateway"}
    /\ FloorApplies
    /\ Len(dd.result) \in 2..(Len(dd.products) - 1)
    /\ Len(dd.gateway) \in 2..(Len(dd.products) - 1)

\* the titles the exact-only loop can keep
DistinctTitles == {dd.products[i].title : i \in 1..Len(dd.products)} \ {<< >>}

\* C15 as claimed: whenever the floor applies, filter_duplicates returns at
\* least DedupFloor and at most DedupStop products.
C15_FloorLaw ==
    FloorApplies => Len(dd.result) >= DedupFloor /\ Len(dd.result) <= DedupStop

\* C15: whenever the floor applies, filter_duplicates returns one product
\* per distinct non-empty title up to DedupStop of them: never more than
\* DedupStop, and at least DedupFloor when the list has that many distinct
\* non-empty titles.
C15_FloorLawOfDistinctTitles ==
    FloorApplies =>
        /\ Len(dd.result) = Min2(DedupStop, Cardinality(DistinctTitles))
        /\ Len(dd.result) <= DedupStop
        /\ Cardinality(DistinctTitles) >= DedupFloor => Len(dd.result) >= DedupFloor

\* the exact-only loop stopped at DedupStop products with titles to spare
C15_Witness ==
    /\ FloorApplies
    /\ Cardinality(DistinctTitles) > DedupStop
    /\ Len(dd.result) = DedupStop

\* the lengths a and b have a ratio (shorter / longer) of at least 0.7
RatioAtLeast(a, b) == 100 * Min2(a, b) >= LenRatio * Max2(a, b)

\* the pairs (dropped product, kept product that made the first loop drop it)
DroppedBy ==
    {<<i, k>> \in (1..Len(dd.trace)) \X (1..Len(dd.products)) :
        dd.trace[i].why \in {"exact", "similar"} /\ k \in dd.trace[i].by}

\* C16 as claimed: no product is dropped because of a kept product whose
\* title is less than 0.7 times, or more than 1/0.7 times, as long as its own.
C16_TitleLengthGuard ==
    Deduplicated =>
        \A pr \in DroppedBy :
            RatioAtLeast(RawLen(dd.products[pr[1]].title), RawLen(dd.products[pr[2]].title))

\* C16: no product is dropped because of a kept product whose normalized
\* title is less than 0.7 times, or more than 1/0.7 times, as long as its
\* own normalized title.
C16_NormalizedLengthGuard ==
    Deduplicated =>
        \A pr \in DroppedBy :
            RatioAtLeast(Len(deduplication_normalize_title(dd.products[pr[1]].title)),
                         Len(deduplication_normalize_title(dd.products[pr[2]].title)))

\* two kept products whose normalized titles score as similar and differ
\* too much in length, next to a product dropped as similar
C16_Witness ==
    /\ Deduplicated
    /\ \E i \in 1..Len(dd.trace) : dd.trace[i].why = "similar"
    /\ \E i, k \in 1..Len(dd.unique) :
          LET a == deduplication_normalize_title(dd.unique[i].title)
              b == deduplication_normalize_title(dd.unique[k].title)
          IN /\ i < k
             /\ ~RatioAtLeast(Len(a), Len(b))
             /\ is_similar_title_unguarded(a, b, SimilarityThreshold)

---------------------------------------------------------------------------
(* Claims about the queries of the Search Record Store.                    *)

\* the response in view is one of the given kind of query
Answered(kind) == "kind" \in DOMAIN view /\ view.kind = kind

\* the ids of the rows of a list
Ids(rows) == [i \in 1..Len(rows) |-> rows[i].id]

\* the searches by search_time descending, those of equal time by id descending
NewestFirst(rows) ==
    CHOOSE o \in OrderBySearchTimeDesc(rows) :
        \A i, j \in 1..Len(o) :
            i < j /\ o[i].search_time = o[j].search_time => o[i].id > o[j].id

\* C17: get_recent_searches(skip, limit) returns the searches in descending
\* order of creation time, searches of equal creation time in descending
\* order of id: the list returned for (skip, limit) is the one slice of that
\* single order, so that pages neither repeat nor omit a search.
C17_RecentSearchesOrder ==
    Answered("recent") =>
        view.ids = Ids(OffsetLimit(NewestFirst(store.searches), view.skip, view.limit))

\* the price string contains a number n with price_min <= n <= price_max
InPriceRange(price, filters) ==
    \E i \in 1..Len(price) :
        /\ price[i].kind = "num"
        /\ filters.price_min.given => filters.price_min.value <= price[i].n
        /\ filters.price_max.given => price[i].n <= filters.price_max.value

\* the rows of a search that are in the price range of the filters
RowsInPriceRange(search_id, filters) ==
    SelectSeq(ResultsOf(store, search_id), LAMBDA row : InPriceRange(row.price, filters))

\* C18: with price_min and/or price_max, get_filtered_results returns exactly
\* the results of the search whose price string contains a number n with
\* price_min <= n <= price_max; results whose price has no number are left
\* out; of "$10.00" and "$25.50" with price_max = 20 only the first is returned.
C18_PriceRangeFilter ==
    /\ Answered("filtered")
    /\ view.filters.price_min.given \/ view.filters.price_max.given
    /\ ~view.filters.brand.given
    /\ ~view.filters.source.given
    => /\ view.total = Len(RowsInPriceRange(view.search_id, view.filters))
       /\ view.ids = Ids(OffsetLimit(RowsInPriceRange(view.search_id, view.filters),
                                     view.skip, view.limit))

\* part occurs in string, letter case apart
Contains(string, part) ==
    \E at \in 0..(Len(string) - Len(part)) :
        \A i \in 1..Len(part) : Lower(part[i]) = Lower(string[at + i])

\* the row satisfies every filter that was supplied
Satisfies(row, filters) ==
    /\ filters.brand.given /\ filters.brand.value # << >> =>
          \E k \in 1..Len(filters.brand.value) : Contains(row.brand, filters.brand.value[k])
    /\ filters.source.given /\ filters.source.value # << >> =>
          \E k \in 1..Len(filters.source.value) : row.source = filters.source.value[k]
    /\ filters.price_min.given \/ filters.price_max.given => InPriceRange(row.price, filters)

\* the rows of a search that satisfy the filters
RowsSatisfying(search_id, filters) ==
    SelectSeq(ResultsOf(store, search_id), LAMBDA row : Satisfies(row, filters))

\* C19: get_filtered_results(searchId, filter, skip, limit) returns only
\* results of searchId, and among them exactly those that satisfy every
\* supplied filter (brand: substring of a listed brand, letter case apart;
\* source: one of the listed sources; price: the range); total is the number
\* of matching results before skip and limit; the page has at most limit rows.
C19_FilteredResults ==
    Answered("filtered") =>
        /\ view.total = Len(RowsSatisfying(view.search_id, view.filters))
        /\ view.ids = Ids(OffsetLimit(RowsSatisfying(view.search_id, view.filters),
                                      view.skip, view.limit))
        /\ Len(view.ids) <= view.limit

---------------------------------------------------------------------------
(* Claim about cropping.                                                   *)

\* /clip has answered a request for an image that exists
Clipped == crop.response # None /\ crop.response.status # 404

\* the rectangle of the request lies in the image and is not empty
InBounds(r) ==
    /\ r.x >= 0 /\ r.y >= 0 /\ r.width > 0 /\ r.height > 0
    /\ r.x + r.width <= r.size[1]
    /\ r.y + r.height <= r.size[2]

---------------------------------------------------------------------------
(* Claims about missing resources.                                         *)

\* the image of the request in view is missing: a local path that does not
\* exist, or a remote URL that cannot be retrieved
ImageMissing ==
    /\ Answered("image")
    /\ IF view.ref.remote THEN view.ref.get # "ok" ELSE ~view.exists

\* C21: /clip, /search and /dimensions answer a missing image with 404, be it
\* a local path that does not exist or a remote URL that cannot be
\* retrieved, and a missing search id is answered with 404: never 400 or 500.
C21_MissingIs404 ==
    /\ ImageMissing => view.status = 404
    /\ Answered("fetch") /\ view.search_id \notin 1..Len(store.searches) => view.status = 404

---------------------------------------------------------------------------
(* Claims about the normalizer.                                            *)

\* the normalizer has made the product of the item in view
Normalized == Answered("normalizer") /\ view.step >= 1

\* C22: the rating and the reviews_count of a normalized record are each a
\* number taken from the provider item, or null: a rating or review count
\* the provider gives as a string never appears in the record.
C22_RatingsAreNumbers ==
    Normalized =>
        /\ view.product.rating.type \in {"num", "null"}
        /\ view.product.rating.type = "num" => view.product.rating = view.item.rating
        /\ view.product.reviews_count.type \in {"num", "null"}
        /\ view.product.reviews_count.type = "num" =>
              view.product.reviews_count \in {view.item.reviews, view.item.reviews_count}

\* the item has a structured price: a price string that is not blank
HasStructuredPrice(item) == item.price # None /\ Squeeze(item.price.str) # << >>

\* a currency-like token: a currency symbol followed by digits, or digits
\* followed by a currency code
IsCurrencyToken(t) ==
    \/ /\ Len(t) >= 2
       /\ t[1] \in CurrencySymbols
       /\ t[2] \in DigitChars
       /\ \A i \in 2..Len(t) : t[i] \in DigitChars \cup {",", "."}
    \/ \E d \in 1..Len(t), gap \in {<< >>, <<" ">>} :
          /\ \A i \in 1..d : t[i] \in DigitChars
          /\ SubSeq(t, d + 1, Len(t)) = gap \o <<"U", "S", "D">>

\* the currency-like tokens found in a text
CurrencyTokens(text) ==
    {SubSeq(text, i, j) : i \in 1..Len(text), j \in 1..Len(text)} \ {<< >>}

\* the currency-like tokens in the title and the description of an item
TokensOf(item) ==
    {t \in CurrencyTokens(TitleText(item.title).str) \cup CurrencyTokens(item.snippet.str) :
        IsCurrencyToken(t)}

\* C23: for an item of either channel, a structured price becomes the price
\* of the record; without one, the price is a currency-like token found in
\* the title or the description; with neither, the record has no price.
C23_PriceExtraction ==
    Normalized =>
        LET price == view.product.price
        IN IF HasStructuredPrice(view.item)
           THEN price \in {view.item.price, normalize_price(view.item.price)}
           ELSE IF TokensOf(view.item) # {}
                THEN StrTruthy(price) /\ price.str \in TokensOf(view.item)
                ELSE ~StrTruthy(price)

\* C24: the normalizer is idempotent: extract_product_info applied to its own
\* result returns that result, under either setting of STORE_RAW_DATA, and
\* so do normalize_title and normalize_price.
C24_NormalizerIdempotent ==
    Answered("normalizer") /\ view.step = 3 =>
        /\ view.again = view.info
        /\ view.title_again = view.title
        /\ view.price_again = view.price

---------------------------------------------------------------------------
(* Claims about the gateway's deduplication step.                          *)

\* both deduplicators have run on the product list
BothDeduplicated == dd.called = {"deduplication", "gateway"}

\* the raw titles of the product list are non-empty and pairwise distinct
RawTitlesDistinct ==
    /\ \A i \in 1..Len(dd.products) : dd.products[i].title # << >>
    /\ \A i, j \in 1..Len(dd.products) :
          i # j => dd.products[i].title # dd.products[j].title

\* C25: the deduplication step of the gateway returns what the two-pass
\* filter_duplicates of utils/deduplication returns for the same products;
\* in particular, of more than DedupFloor products whose raw titles are
\* non-empty and pairwise distinct, at least DedupFloor are left.
C25_GatewayDedupIsTwoPass ==
    BothDeduplicated =>
        /\ dd.gateway = dd.result
        /\ Len(dd.products) > DedupFloor /\ RawTitlesDistinct =>
              Len(dd.gateway) >= DedupFloor

---------------------------------------------------------------------------
(* Claims about what the cache wrappers store and replay.                  *)

\* the time the cache in use stored its entry for url, when it holds one
\* that has not expired
StoredAt(url) ==
    CASE cache_decorator = "async_cache" ->
            {e.timestamp : e \in {x \in _cache : x.key = AsyncKey(url)}}
      [] cache_decorator = "redis_cache" /\ redis_ok ->
            {e.expireAt - TTL : e \in {x \in redis_db : x.key = RedisKey(url)}}
      [] OTHER ->
            {e.timestamp : e \in {x \in _memory_cache : x.key = RedisKey(url)}}

\* the result the cache in use holds for url
StoredResult(url) ==
    CASE cache_decorator = "async_cache" ->
            {e.result : e \in {x \in _cache : x.key = AsyncKey(url)}}
      [] cache_decorator = "redis_cache" /\ redis_ok ->
            {e.value.json : e \in {x \in redis_db : x.key = RedisKey(url)}}
      [] OTHER ->
            {e.result : e \in {x \in _memory_cache : x.key = RedisKey(url)}}

\* the cache in use holds the empty list for url, stored less than TTL ago
EmptyWithinTTL(url) ==
    /\ StoredResult(url) = {<< >>}
    /\ \A at \in StoredAt(url) : clock - at < TTL

\* a search has just returned the empty list of its own gateway call, made
\* by the wrapper's try block with a store that works
EmptyCallReturned ==
    /\ last.pc = "done"
    /\ ~last.hit
    /\ last.outcome = Return(<< >>)
    /\ ~last.fallback
    /\ last.storeErr = {}

\* this step starts a search for url
Begins(url) ==
    /\ started' = started + 1
    /\ \/ last'.pc = "done" /\ last'.url = url
       \/ \E t \in Tasks : task[t].pc = "idle" /\ task'[t].pc # "idle" /\ task'[t].url = url

\* this step starts a search for url and the store does not fail it
BeginsUnfailed(url) ==
    /\ Begins(url)
    /\ last'.storeErr = {}
    /\ \A t \in Tasks : task[t].pc = "idle" => task'[t].storeErr = {}

\* this step answers a search for url with the empty list, from the cache,
\* with no gateway call and no request to the provider
ReplaysEmpty(url) ==
    /\ last'.pc = "done"
    /\ last'.url = url
    /\ last'.hit
    /\ last'.outcome = Return(<< >>)
    /\ last'.calls = 0
    /\ last'.total = 0
    /\ task' = task

\* C26: a gateway call that ends with an empty list (429 on all three
\* attempts, a 4xx other than 429, a missing credential, no priced product)
\* is stored like any other result: when it returns the cache holds the
\* empty list for the url, stamped with the time of the return, and every
\* search for the url that starts less than TTL later returns the empty
\* list without a gateway call or a request to the provider.
C26_EmptyResultIsCached ==
    /\ [](EmptyCallReturned =>
             StoredResult(last.url) = {<< >>} /\ StoredAt(last.url) = {clock})
    /\ [][\A url \in Urls : EmptyWithinTTL(url) /\ BeginsUnfailed(url) => ReplaysEmpty(url)]_vars

\* a search answered with an empty list stored TTL - 1 seconds earlier
C26_Witness ==
    /\ last.pc = "done"
    /\ last.hit
    /\ last.outcome = Return(<< >>)
    /\ last.total = 0
    /\ last.servedAge = TTL - 1

\* the cache in use holds no entry for url that was stored less than TTL ago
NoFreshEntry(url) == \A at \in StoredAt(url) : clock - at >= TTL

\* this step starts a gateway call for a search for url that begins in it
CallsGateway(url) ==
    \/ \E t \in Tasks :
          /\ task[t].pc = "idle"
          /\ task'[t].pc = "attempting"
          /\ task'[t].url = url
          /\ task'[t].calls = 1
          /\ task'[t].requests = 0
    \/ /\ ~api_key
       /\ last'.pc = "done" /\ last'.url = url /\ ~last'.hit /\ last'.calls = 1

\* this step ends a gateway call by raising: the search fails, or the
\* wrapper catches the failure and calls the gateway again
GatewayRaises ==
    \/ last'.pc = "done" /\ last'.outcome.act = "raise"
    \/ \E t \in Tasks : task'[t].fallback /\ ~task[t].fallback

\* C27: a gateway call that raises leaves the process-local caches as they
\* were (no entry written or refreshed for its url, none of another url
\* touched); no search is ever answered with a failure from the cache, and
\* a search that finds no fresh entry for its url calls the gateway.
C27_RaiseLeavesCacheUnchanged ==
    /\ [][GatewayRaises => _cache' = _cache /\ _memory_cache' = _memory_cache]_vars
    /\ [](last.pc = "done" /\ last.hit => last.outcome.act = "return")
    /\ [][\A url \in Urls :
             (\E t \in Tasks : task[t].pc = "idle" /\ task'[t].pc # "idle" /\ task'[t].url = url)
                 /\ NoFreshEntry(url) => CallsGateway(url)]_vars

\* a search through async_cache failed after three requests while the
\* cache held an entry of the other url
C27_Witness ==
    /\ cache_decorator = "async_cache"
    /\ last.pc = "done"
    /\ last.outcome.act = "raise"
    /\ last.requests = MaxAttempts
    /\ \E e \in _cache : e.key # AsyncKey(last.url)
    /\ ~CacheHas(_cache, AsyncKey(last.url))

\* a search has just returned the result of its own gateway call, made by
\* the wrapper's try block with a store that works
OwnCallReturned ==
    /\ last.pc = "done"
    /\ ~last.hit
    /\ last.outcome.act = "return"
    /\ ~last.fallback
    /\ last.storeErr = {}

\* C28: the cache does not coalesce concurrent misses: a search that starts
\* while the cache holds no fresh entry for its url makes its own gateway
\* call, whatever other searches for the url are under way; each call sends
\* at most MaxAttempts requests; each search that returns from its own call
\* writes the entry of the url; and a search is a hit only if a fresh entry
\* was there when it started, never once it has called the gateway.
C28_NoCoalescing ==
    /\ [][\A url \in Urls : Begins(url) /\ NoFreshEntry(url) => CallsGateway(url)]_vars
    /\ [](\A t \in Tasks : task[t].pc # "idle" =>
              /\ ~task[t].hit
              /\ task[t].calls >= 1
              /\ task[t].requests <= MaxAttempts)
    /\ [](OwnCallReturned =>
              /\ StoredResult(last.url) = {last.outcome.value}
              /\ StoredAt(last.url) = {clock})
    /\ [][\A url \in Urls : Begins(url) /\ last'.pc = "done" /\ last'.hit =>
              ~NoFreshEntry(url) /\ StoredResult(url) = {last'.outcome.value}]_vars
    /\ [](last.pc = "done" /\ last.hit => last.calls = 0 /\ last.total = 0)

\* two searches for one url missed together: the one that returned last,
\* after three requests, replaced the entry the other had written meanwhile
C28_Witness ==
    /\ OwnCallReturned
    /\ ~last.stale
    /\ last.replaced # None
    /\ last.requests = MaxAttempts
    /\ last.calls = 1

---------------------------------------------------------------------------
(* Claims about what the store holds of a search.                          *)

\* the deferred write of a search has completed
WriteComplete(search_id) ==
    /\ search_id \in ep.responded
    /\ \A b \in ep.bg : b.search_id # search_id

\* the results of the response /search gave for a search
SentResults(search_id) == (CHOOSE r \in ep.sent : r.search_id = search_id).items

\* results, row ids aside: the response of /search carries id 0
Unnumbered(items) == [k \in 1..Len(items) |-> [items[k] EXCEPT !.id = 0]]

\* the rows of a search as /searches/{search_id} returns them
FetchedResults(search_id) == SearchResults("fetch", search_id, ResultsOf(store, search_id))

\* C29: once the deferred write of a search has completed, fetching the
\* search by id returns the products of its original response: as many, in
\* the same order, with the same title, link, image URL, price, brand,
\* source, description, rating and review count, each under that search
\* id; the store holds no other row for the search, and none before the
\* write, whatever other searches are written in between.
C29_FetchReturnsResponse ==
    /\ Answered("fetch") /\ view.status = 200 /\ WriteComplete(view.search_id) =>
          /\ Unnumbered(view.items) = SentResults(view.search_id)
          /\ view.total_results = Len(SentResults(view.search_id))
          /\ \A k \in 1..Len(view.items) : view.items[k].search_id = view.search_id
          /\ \A k \in 1..(Len(view.items) - 1) : view.items[k].id < view.items[k + 1].id
    /\ \A search_id \in 1..Len(store.searches) :
          IF WriteComplete(search_id)
          THEN Unnumbered(FetchedResults(search_id)) = SentResults(search_id)
          ELSE ResultsOf(store, search_id) = << >>

\* a fetch of a search of two products or more whose rows were written
\* after the rows of a search that was created later
C29_Witness ==
    /\ Answered("fetch")
    /\ view.status = 200
    /\ WriteComplete(view.search_id)
    /\ Len(view.items) >= 2
    /\ \E i, j \in 1..Len(store.results) :
          /\ store.results[i].search_id = view.search_id
          /\ store.results[j].search_id > view.search_id
          /\ store.results[j].id < store.results[i].id
          /\ store.results[j].title # store.results[i].title

\* the searches whose handler is calling the gateway
Searching == {ep.h[t].search_id : t \in {u \in Tasks : ep.h[u].pc = "searching"}}

\* this step handles a request to /search that passes the existence check
PassesExistenceCheck == ep'.n = ep.n + 1 /\ ~(Answered("search")' /\ view'.status = 404)

\* C30: /search creates the SearchRequest before it calls the gateway and
\* nothing updates or removes it: each request that passes the existence
\* check adds exactly one row, no other step adds one, rows never change;
\* and a search whose gateway call fails (answered 500) keeps its row, with
\* no result row and no deferred write, then and ever after.
C30_SearchRequestPersists ==
    /\ [][/\ Len(store'.searches) = Len(store.searches) + (IF PassesExistenceCheck THEN 1 ELSE 0)
          /\ SubSeq(store'.searches, 1, Len(store.searches)) = store.searches]_vars
    /\ [](\A t \in Tasks : ep.h[t].pc = "searching" =>
              /\ ep.h[t].search_id \in 1..Len(store.searches)
              /\ store.searches[ep.h[t].search_id].image_path = ep.h[t].url)
    /\ [](Answered("search") /\ view.status = 500 =>
              /\ view.search_id \in 1..Len(store.searches)
              /\ view.search_id \notin ep.responded \cup Searching)
    /\ [](\A search_id \in 1..Len(store.searches) :
              search_id \notin ep.responded =>
                  /\ ResultsOf(store, search_id) = << >>
                  /\ \A b \in ep.bg : b.search_id # search_id)

\* a search was answered 500 after another search was answered and stored
C30_Witness ==
    /\ Answered("search")
    /\ view.status = 500
    /\ Len(store.searches) = 2
    /\ view.search_id = 1
    /\ ResultsOf(store, 1) = << >>
    /\ ResultsOf(store, 2) # << >>
    /\ ep.bg = {}

====
